---- MODULE Spec2Model ----
(***************************************************************************)
(* Model of the query-to-filter core of the retail search backend:        *)
(* ProductSearchService.search_products and build_chroma_filter           *)
(* (src/src/application/services/product_search_service.py).              *)
(*                                                                         *)
(* JSON values coming back from the language model are tagged records:    *)
(*   [t |-> "null"], [t |-> "num", n |-> 3], [t |-> "bool", b |-> TRUE],   *)
(*   [t |-> "str", s |-> <<"r","e","d">>], [t |-> "dict", d |-> pairs],    *)
(*   [t |-> "list", items |-> values].                                     *)
(* A Python str is a sequence of one-character strings, so that strip(),  *)
(* lower() and the substring test of `in` are computed, not assumed.      *)
(* A Python dict is the sequence of its items in insertion order.         *)
(***************************************************************************)
EXTENDS Integers, Sequences, FiniteSets, TLC

VARIABLES
    pc,            \* position inside search_products
    raw_filters,   \* what extract_attributes returned: sequence of [key, value]
    idx,           \* position of the for loop of build_chroma_filter
    filters,       \* the list `filters` of build_chroma_filter
    where_filter,  \* what build_chroma_filter returned
    where_arg,     \* the `where` argument handed to collection.query
    exc,           \* the exception search_products re-raised, or "none"
    \* extract_attributes -> GroqClient.extract_json -> chat_completion
    attempt,       \* loop variable of chat_completion
    api_calls,     \* calls of client.chat.completions.create so far
    sleeps,        \* calls of time.sleep(sleep_seconds) so far
    last_error,    \* last_error of chat_completion
    raw_response,  \* the text chat_completion returned
    llm_error,     \* the exception extract_json raised into extract_attributes
    extracted,     \* the value extract_attributes returned
    \* the vector index round-trip and step 5
    query_calls,   \* calls of collection.query so far
    query_error,   \* the exception collection.query raised, or "none"
    results,       \* what collection.query returned
    returned,      \* what search_products returned to its caller
    \* a second build_chroma_filter call on the same raw_filters
    call_no,       \* which build_chroma_filter call is running or ran last
    first_filter,  \* what the first call returned
    \* csv_schema_loader
    files,         \* the schema file of each catalog, as it is on disk
    cache,         \* _SCHEMA_CACHE
    file_reads,    \* open() calls on each catalog's schema file so far
    last_call,     \* the last completed get_attribute_schema call
    threads,       \* get_attribute_schema calls in progress, one per thread
    \* the search_products tool of the agent
    tool_pc,       \* where the tool call stands
    candidates,    \* products, as product_service.search_products returned them
    doc_cols,      \* DOCUMENT_COLUMNS
    tool_schema,   \* ATTRIBUTE_SCHEMA
    tool_i,        \* position of the formatting loop in candidates
    formatted,     \* formatted_products
    kept_from,     \* positions in candidates of the entries of formatted
    tool_out,      \* the object the tool returns as JSON text
    \* AgentService.generate_response and the /api/v1/search route
    agent_pc,      \* where the request stands
    agent_result,  \* what executor.invoke returned: its output text
    steps_seen,    \* intermediate steps the extraction loop has gone through
    products_dict, \* products_dict, in insertion order
    seen,          \* the products with an id met so far, in the order met
    llm,           \* self.llm once AgentService is constructed
    gen_result,    \* what generate_response returned
    route_response, \* the SearchResponse of the route
    \* the sessions of AgentService
    sessions,      \* self.sessions: session id -> executor
    memories,      \* self.memories: session id -> chat history
    next_executor, \* identity the next AgentExecutor gets
    sess_last      \* the last session operation and what it returned

searchVars == <<pc, raw_filters, idx, filters, where_filter, where_arg, exc>>
llmVars == <<attempt, api_calls, sleeps, last_error, raw_response, llm_error, extracted>>
indexVars == <<query_calls, query_error, results, returned>>
repeatVars == <<call_no, first_filter>>
schemaVars == <<files, cache, file_reads, last_call, threads>>
toolVars == <<tool_pc, candidates, doc_cols, tool_schema, tool_i, formatted, kept_from, tool_out>>
agentVars == <<agent_pc, agent_result, steps_seen, products_dict, seen, llm,
               gen_result, route_response>>
sessVars == <<sessions, memories, next_executor, sess_last>>
laterVars == <<toolVars, agentVars, sessVars>>
coreVars == <<searchVars, llmVars, indexVars, repeatVars, schemaVars>>
extVars == <<llmVars, indexVars, repeatVars, schemaVars, laterVars>>
vars == <<searchVars, extVars>>

(***************************************************************************)
(* Bounds of the model.                                                    *)
(***************************************************************************)
MaxKeys == 2   \* keys in a raw constraint holding several clauses
MaxOps == 2    \* operator/value pairs in one range object
MaxCalls == 3  \* get_attribute_schema calls made one after the other
NumThreads == 2   \* threads calling get_attribute_schema at the same time

(***************************************************************************)
(* JSON values.                                                            *)
(***************************************************************************)
Null == [t |-> "null"]
Num(n) == [t |-> "num", n |-> n]
Bool(b) == [t |-> "bool", b |-> b]
Str(s) == [t |-> "str", s |-> s]
Dict(d) == [t |-> "dict", d |-> d]
List(items) == [t |-> "list", items |-> items]
Pair(op, val) == [op |-> op, val |-> val]
Entry(key, value) == [key |-> key, value |-> value]

\* The characters of the operator names, for str and list values.
OpChars(op) ==
    CASE op = "$gte" -> <<"$", "g", "t", "e">>
      [] op = "$lte" -> <<"$", "l", "t", "e">>
      [] op = "$eq" -> <<"$", "e", "q">>
      [] op = "$lt" -> <<"$", "l", "t">>
      [] op = "$gt" -> <<"$", "g", "t">>

\* isinstance(x, (int, float)): bool is a subclass of int in Python.
IsIntOrFloat(x) == x.t \in {"num", "bool"}

\* `x is not None and isinstance(x, (int, float))`
IsNumericOperand(x) == x.t # "null" /\ IsIntOrFloat(x)

\* str.strip(): leading and trailing whitespace removed.
Strip(s) ==
    LET keep == {i \in 1..Len(s) : s[i] # " "}
        lo == CHOOSE i \in keep : \A j \in keep : i <= j
        hi == CHOOSE i \in keep : \A j \in keep : i >= j
    IN  IF keep = {} THEN <<>> ELSE SubSeq(s, lo, hi)

\* str.lower(), on the characters the model uses.
LowerChar(c) ==
    CASE c = "R" -> "r"
      [] c = "E" -> "e"
      [] c = "D" -> "d"
      [] OTHER -> c

Lower(s) == [i \in 1..Len(s) |-> LowerChar(s[i])]

\* Variant: strips but forgets to lowercase.
normalize_filter_value_NoLower(val) ==
    IF val.t = "str" THEN Str(Strip(val.s)) ELSE val

normalize_filter_value(val) ==
    IF val.t = "str" THEN Str(Lower(Strip(val.s))) ELSE val

(***************************************************************************)
(* Python's `k in value` and `value[k]` for a str k.                       *)
(***************************************************************************)
IsSubstr(sub, s) ==
    \E i \in 1..(Len(s) - Len(sub) + 1) : SubSeq(s, i, i + Len(sub) - 1) = sub

\* `in` is defined for dict (key), str (substring) and list (element);
\* on int, float and bool it raises TypeError.
SupportsIn(value) == value.t \in {"dict", "str", "list"}

PyIn(op, value) ==
    CASE value.t = "dict" -> \E i \in 1..Len(value.d) : value.d[i].op = op
      [] value.t = "str" -> IsSubstr(OpChars(op), value.s)
      [] value.t = "list" ->
            \E i \in 1..Len(value.items) : value.items[i] = Str(OpChars(op))
      [] OTHER -> FALSE

\* value[op] of a dict that has the key.
GetItem(value, op) ==
    value.d[CHOOSE i \in 1..Len(value.d) : value.d[i].op = op].val

(***************************************************************************)
(* Leaves and compiled filters.                                            *)
(*   {field: {op: val}}  is [kind |-> "leaf", field, op, val]              *)
(*   {field: val}        is the same with op = Bare                        *)
(*   {}                  is EmptyFilter                                    *)
(*   {"$and": [...]}     is [kind |-> "and", leaves |-> <<...>>]           *)
(***************************************************************************)
Bare == "bare"
Leaf(field, op, val) == [kind |-> "leaf", field |-> field, op |-> op, val |-> val]
EmptyFilter == [kind |-> "empty"]
AndFilter(leaves) == [kind |-> "and", leaves |-> leaves]
None == [kind |-> "None"]

Ok(leaves) == [exc |-> "none", leaves |-> leaves]
Raise(e) == [exc |-> e, leaves |-> <<>>]

\* Variant: each side of the range validated on its own.
TwoSidedLeaves_EachSide(min_age, max_age) ==
    (IF IsNumericOperand(max_age) THEN <<Leaf("age_max", "$lte", max_age)>> ELSE <<>>)
    \o (IF IsNumericOperand(min_age) THEN <<Leaf("age_min", "$gte", min_age)>> ELSE <<>>)

\* Variant: the bound fields crossed (interval overlap instead of containment).
TwoSidedLeaves_Crossed(min_age, max_age) ==
    IF IsNumericOperand(min_age) /\ IsNumericOperand(max_age)
    THEN <<Leaf("age_min", "$lte", max_age), Leaf("age_max", "$gte", min_age)>>
    ELSE <<>>

\* `{"$gte": lo, "$lte": hi}`: both operands validated together.
TwoSidedLeaves(min_age, max_age) ==
    IF IsNumericOperand(min_age) /\ IsNumericOperand(max_age)
    THEN <<Leaf("age_max", "$lte", max_age), Leaf("age_min", "$gte", min_age)>>
    ELSE <<>>

\* Variant: the comparisons of the equality branch swapped.
EqLeaves_Swapped(age) ==
    IF IsNumericOperand(age)
    THEN <<Leaf("age_min", "$gte", age), Leaf("age_max", "$lte", age)>>
    ELSE <<>>

\* `{"$eq": age}`
EqLeaves(age) ==
    IF IsNumericOperand(age)
    THEN <<Leaf("age_min", "$lte", age), Leaf("age_max", "$gte", age)>>
    ELSE <<>>

\* Variant: an inclusive comparison for less-than.
LtLeaves_Inclusive(age_lt) ==
    IF IsNumericOperand(age_lt) THEN <<Leaf("age_min", "$lte", age_lt)>> ELSE <<>>

\* `{"$lt": age_lt}`
LtLeaves(age_lt) ==
    IF IsNumericOperand(age_lt) THEN <<Leaf("age_min", "$lt", age_lt)>> ELSE <<>>

\* `{"$gt": age_gt}`
GtLeaves(age_gt) ==
    IF IsNumericOperand(age_gt) THEN <<Leaf("age_max", "$gt", age_gt)>> ELSE <<>>

\* Variant: the equality branch tested before the two-sided one.
AgeLeaves_EqFirst(value) ==
    IF ~SupportsIn(value) THEN Raise("TypeError")
    ELSE IF PyIn("$eq", value) THEN
        IF value.t # "dict" THEN Raise("TypeError")
        ELSE Ok(EqLeaves(GetItem(value, "$eq")))
    ELSE IF PyIn("$gte", value) /\ PyIn("$lte", value) THEN
        IF value.t # "dict" THEN Raise("TypeError")
        ELSE Ok(TwoSidedLeaves(GetItem(value, "$gte"), GetItem(value, "$lte")))
    ELSE IF PyIn("$lt", value) THEN
        IF value.t # "dict" THEN Raise("TypeError")
        ELSE Ok(LtLeaves(GetItem(value, "$lt")))
    ELSE IF PyIn("$gt", value) THEN
        IF value.t # "dict" THEN Raise("TypeError")
        ELSE Ok(GtLeaves(GetItem(value, "$gt")))
    ELSE Ok(<<>>)

\* The `if key == "age":` branch, one clause: the if/elif chain over the
\* operators. `op in value` raises TypeError on a number, and `value[op]`
\* raises TypeError on a str or a list that passed the `in` test.
AgeLeaves(value) ==
    IF ~SupportsIn(value) THEN Raise("TypeError")
    ELSE IF PyIn("$gte", value) /\ PyIn("$lte", value) THEN
        IF value.t # "dict" THEN Raise("TypeError")
        ELSE Ok(TwoSidedLeaves(GetItem(value, "$gte"), GetItem(value, "$lte")))
    ELSE IF PyIn("$eq", value) THEN
        IF value.t # "dict" THEN Raise("TypeError")
        ELSE Ok(EqLeaves(GetItem(value, "$eq")))
    ELSE IF PyIn("$lt", value) THEN
        IF value.t # "dict" THEN Raise("TypeError")
        ELSE Ok(LtLeaves(GetItem(value, "$lt")))
    ELSE IF PyIn("$gt", value) THEN
        IF value.t # "dict" THEN Raise("TypeError")
        ELSE Ok(GtLeaves(GetItem(value, "$gt")))
    ELSE Ok(<<>>)

\* Variant: only None is filtered out, the isinstance test is missing.
RangeLeaves_NotNoneOnly(key, value) ==
    LET kept == SelectSeq(value.d, LAMBDA p : p.val.t # "null")
    IN  [i \in 1..Len(kept) |-> Leaf(key, kept[i].op, kept[i].val)]

\* The `if isinstance(value, dict):` branch: one leaf per numeric operand.
RangeLeaves(key, value) ==
    LET kept == SelectSeq(value.d, LAMBDA p : IsNumericOperand(p.val))
    IN  [i \in 1..Len(kept) |-> Leaf(key, kept[i].op, kept[i].val)]

\* The `else:` branch.
ScalarLeaf(key, value) == <<Leaf(key, Bare, normalize_filter_value(value))>>

\* Variant: no special case for a single leaf.
BuildWhere_AlwaysAnd(fs) ==
    IF Len(fs) = 0 THEN EmptyFilter ELSE AndFilter(fs)

\* Variant: the conjunction misses the first leaf.
BuildWhere_SkipFirst(fs) ==
    IF Len(fs) = 0 THEN EmptyFilter
    ELSE IF Len(fs) = 1 THEN fs[1]
    ELSE AndFilter(Tail(fs))

\* "Build final Chroma where clause".
BuildWhere(fs) ==
    IF Len(fs) = 0 THEN EmptyFilter
    ELSE IF Len(fs) = 1 THEN fs[1]
    ELSE AndFilter(fs)

\* Variant: the index is queried without the compiled filter.
WhereArg_Unfiltered(wf) == None

\* Variant: the compiled filter handed over as it is.
WhereArg_PassThrough(wf) == wf

\* `where_filter if where_filter else None`: a dict is falsy iff it is empty.
WhereArg(wf) == IF wf # EmptyFilter THEN wf ELSE None

(***************************************************************************)
(* What the language model may hand back as the extracted constraint.     *)
(***************************************************************************)
Keys == {"age", "price", "color"}
Ops == {"$gte", "$lte", "$eq", "$lt", "$gt"}

S_red == <<"r", "e", "d">>
S_Red_padded == <<" ", "R", "e", "d", " ">>

\* Operands of a range object.
OperandSamples == {Null, Num(3), Num(7), Bool(TRUE), Str(S_red)}

\* Values that are not range objects.
ScalarSamples ==
    {Null, Num(3), Bool(TRUE), Str(S_red), Str(S_Red_padded),
     Str(OpChars("$eq")), List(<<>>),
     List(<<Str(OpChars("$gte")), Str(OpChars("$lte"))>>)}

\* Sequences of at most n pairs with distinct operators.
RECURSIVE PairSeqs(_, _)
PairSeqs(n, operands) ==
    IF n = 0 THEN {<<>>}
    ELSE LET shorter == PairSeqs(n - 1, operands)
         IN  shorter \cup
             {Append(d, Pair(op, v)) :
                d \in {e \in shorter : Len(e) = n - 1},
                op \in Ops, v \in operands}

DistinctOps(d) == \A i, j \in 1..Len(d) : i # j => d[i].op # d[j].op

DictSamples ==
    {Dict(d) : d \in {e \in PairSeqs(MaxOps, OperandSamples) : DistinctOps(e)}}

\* Two-sided range objects that also carry a lower-precedence operator.
MixedRangeSamples ==
    {Dict(<<Pair("$gte", lo), Pair("$lte", hi), Pair(op, Num(3))>>) :
        lo \in {Null, Num(3), Str(S_red)}, hi \in {Null, Num(7), Str(S_red)},
        op \in {"$eq", "$lt", "$gt"}}

\* A raw constraint with one clause: every sample value under every key.
SingleClauseInputs ==
    {<<Entry(k, v)>> :
        k \in Keys, v \in ScalarSamples \cup DictSamples \cup MixedRangeSamples}

\* Values of the clauses of a raw constraint with several keys.
CoreValues ==
    {Null, Num(3), Str(S_Red_padded)}
    \cup {Dict(<<Pair(op, v)>>) : op \in Ops, v \in {Null, Num(3)}}
    \cup {Dict(<<Pair("$gte", Num(3)), Pair("$lte", Num(7))>>),
          Dict(<<Pair("$gte", Null), Pair("$lte", Num(7))>>)}

RECURSIVE EntrySeqs(_)
EntrySeqs(n) ==
    IF n = 0 THEN {<<>>}
    ELSE LET shorter == EntrySeqs(n - 1)
         IN  shorter \cup
             {Append(r, Entry(k, v)) :
                r \in {e \in shorter : Len(e) = n - 1},
                k \in Keys, v \in CoreValues}

DistinctKeys(r) == \A i, j \in 1..Len(r) : i # j => r[i].key # r[j].key

MultiClauseInputs == {r \in EntrySeqs(MaxKeys) : DistinctKeys(r)}

RawInputs == SingleClauseInputs \cup MultiClauseInputs

(***************************************************************************)
(* search_products, step by step.                                          *)
(***************************************************************************)
Unset == [t |-> "unset"]

\* Catalog names, the keys of _SCHEMA_CACHE; a key the cache does not hold.
Catalogs == {"c1", "c2"}
Absent == [t |-> "absent"]
NoFile == [st |-> "absent"]
Threads == 1..NumThreads

\* No get_attribute_schema call has completed; a thread that is not in one.
NoCall == [n |-> 0, c |-> "none", outcome |-> "none", value |-> Unset,
           error |-> "none", accessed |-> FALSE, file |-> Unset]
Idle == [pc |-> "idle", c |-> "none", schema |-> Unset, ret |-> Unset, error |-> "none"]

\* Session identifiers; no session operation has run.
SessionIds == {"default", "s1"}
NoOp == [op |-> "none", s |-> "none", ret |-> Unset, was_live |-> FALSE]
NotReturned == [ok |-> FALSE]
Returned(products) == [ok |-> TRUE, products |-> products]

\* Nothing has been called yet.
ExtInit ==
    /\ attempt = 1
    /\ api_calls = 0
    /\ sleeps = 0
    /\ last_error = "none"
    /\ raw_response = Unset
    /\ llm_error = "none"
    /\ extracted = Unset
    /\ query_calls = 0
    /\ query_error = "none"
    /\ results = Unset
    /\ returned = NotReturned
    /\ call_no = 1
    /\ first_filter = Unset
    /\ files = [c \in Catalogs |-> NoFile]
    /\ cache = [c \in Catalogs |-> Absent]
    /\ file_reads = [c \in Catalogs |-> 0]
    /\ last_call = NoCall
    /\ threads = [t \in Threads |-> Idle]
    /\ tool_pc = "idle"
    /\ candidates = <<>>
    /\ doc_cols = {}
    /\ tool_schema = Unset
    /\ tool_i = 1
    /\ formatted = <<>>
    /\ kept_from = <<>>
    /\ tool_out = Unset
    /\ agent_pc = "idle"
    /\ agent_result = Unset
    /\ steps_seen = 0
    /\ products_dict = <<>>
    /\ seen = <<>>
    /\ llm = Unset
    /\ gen_result = Unset
    /\ route_response = Unset
    /\ sessions = [s \in SessionIds |-> Absent]
    /\ memories = [s \in SessionIds |-> Absent]
    /\ next_executor = 1
    /\ sess_last = NoOp

\* Variant: the list of leaves outlives the call and is appended to again.
FreshFilters_Shared == filters

\* `filters = []`: every build_chroma_filter call starts a list of its own.
FreshFilters == <<>>

Init ==
    /\ pc = "extract"
    /\ raw_filters = <<>>
    /\ idx = 1
    /\ filters = <<>>
    /\ where_filter = None
    /\ where_arg = None
    /\ exc = "none"
    /\ ExtInit

\* Step 2: raw_filters = self.extract_attributes(query)
Extract ==
    /\ pc = "extract"
    /\ raw_filters' \in RawInputs
    /\ pc' = "loop"
    /\ UNCHANGED <<idx, filters, where_filter, where_arg, exc>>
    /\ UNCHANGED extVars

InLoop == pc = "loop" /\ idx <= Len(raw_filters)
key == raw_filters[idx].key
value == raw_filters[idx].value

\* `if value is None: continue`
SkipNone ==
    /\ InLoop
    /\ value.t = "null"
    /\ idx' = idx + 1
    /\ UNCHANGED <<pc, raw_filters, filters, where_filter, where_arg, exc>>
    /\ UNCHANGED extVars

\* `if key == "age": ... continue`; a TypeError leaves build_chroma_filter
\* and is logged and re-raised by search_products.
AgeClause ==
    /\ InLoop
    /\ value.t # "null"
    /\ key = "age"
    /\ LET r == AgeLeaves(value)
       IN  IF r.exc = "none"
           THEN /\ filters' = filters \o r.leaves
                /\ idx' = idx + 1
                /\ UNCHANGED <<pc, exc>>
           ELSE /\ pc' = "raised"
                /\ exc' = r.exc
                /\ UNCHANGED <<filters, idx>>
    /\ UNCHANGED <<raw_filters, where_filter, where_arg>>
    /\ UNCHANGED extVars

\* `if isinstance(value, dict): for op, num in value.items(): ...`
RangeClause ==
    /\ InLoop
    /\ value.t = "dict"
    /\ key # "age"
    /\ filters' = filters \o RangeLeaves(key, value)
    /\ idx' = idx + 1
    /\ UNCHANGED <<pc, raw_filters, where_filter, where_arg, exc>>
    /\ UNCHANGED extVars

\* `else: filters.append({key: self.normalize_filter_value(value)})`
ScalarClause ==
    /\ InLoop
    /\ value.t \notin {"null", "dict"}
    /\ key # "age"
    /\ filters' = filters \o ScalarLeaf(key, value)
    /\ idx' = idx + 1
    /\ UNCHANGED <<pc, raw_filters, where_filter, where_arg, exc>>
    /\ UNCHANGED extVars

\* The loop is over: build_chroma_filter returns the where clause.
Combine ==
    /\ pc = "loop"
    /\ idx > Len(raw_filters)
    /\ where_filter' = BuildWhere(filters)
    /\ pc' = "query"
    /\ UNCHANGED <<raw_filters, idx, filters, where_arg, exc>>
    /\ UNCHANGED extVars

\* Step 4: self.collection.query(..., where=where_filter if where_filter else None)
Query ==
    /\ pc = "query"
    /\ where_arg' = WhereArg(where_filter)
    /\ pc' = "done"
    /\ UNCHANGED <<raw_filters, idx, filters, where_filter, exc>>
    /\ UNCHANGED extVars

Next ==
    \/ Extract
    \/ SkipNone
    \/ AgeClause
    \/ RangeClause
    \/ ScalarClause
    \/ Combine
    \/ Query

Spec == Init /\ [][Next]_vars

(***************************************************************************)
(* build_chroma_filter called a second time on the raw_filters the first  *)
(* call compiled, after search_products has gone on to query the index.   *)
(***************************************************************************)
Recompile ==
    /\ pc = "done"
    /\ call_no = 1
    /\ call_no' = 2
    /\ first_filter' = where_filter
    /\ filters' = FreshFilters
    /\ idx' = 1
    /\ pc' = "loop"
    /\ UNCHANGED <<raw_filters, where_filter, where_arg, exc>>
    /\ UNCHANGED <<llmVars, indexVars, schemaVars, laterVars>>

NextRepeat ==
    \/ Extract
    \/ SkipNone
    \/ AgeClause
    \/ RangeClause
    \/ ScalarClause
    \/ Combine
    \/ Query
    \/ Recompile

SpecRepeat == Init /\ [][NextRepeat]_vars

(***************************************************************************)
(* search_products with its two round-trips spelled out: the attempts of  *)
(* GroqClient.chat_completion, json.loads of the reply, the compilation   *)
(* above, collection.query and the reassembly of its parallel arrays.     *)
(***************************************************************************)
max_retries == 3

TransientErrors == {"APIConnectionError", "RateLimitError", "InternalServerError"}
OtherErrors == {"AuthenticationError"}
ApiErrors == TransientErrors \cup OtherErrors

\* Variant: every exception of the API call takes the retry path.
IsTransient_All(e) == TRUE

\* Which except clause of chat_completion an exception reaches.
IsTransient(e) == e \in TransientErrors

\* A reply of the model: text json.loads rejects, or the text of a JSON value.
NotJson == [text |-> "not_json"]
JsonText(v) == [text |-> "json", v |-> v]

\* Gender values: a bucket value of the prompt, and a generic word.
S_girls == <<"g", "i", "r", "l", "s">>
S_boys == <<"b", "o", "y", "s">>
S_kids == <<"k", "i", "d", "s">>

\* A JSON object at top level is the Dict of its entries.
ReplyObjects ==
    {Dict(<<>>),
     Dict(<<Entry("color", Str(S_Red_padded))>>),
     Dict(<<Entry("age", Dict(<<Pair("$eq", Num(3))>>)), Entry("price", Null)>>),
     Dict(<<Entry("price", Dict(<<Pair("$lte", Num(7))>>)), Entry("color", Str(S_red))>>),
     Dict(<<Entry("age", Num(3))>>),
     Dict(<<Entry("gender", Str(S_girls))>>),
     Dict(<<Entry("gender", Str(S_kids))>>)}

ReplyNonObjects == {Null, Num(3), Str(S_red), List(<<>>), List(<<Str(S_red)>>)}

ReplySamples == {NotJson} \cup {JsonText(v) : v \in ReplyObjects \cup ReplyNonObjects}

\* json.loads(raw_response)
JsonLoads(reply) ==
    IF reply.text = "json" THEN [exc |-> "none", v |-> reply.v]
    ELSE [exc |-> "JSONDecodeError", v |-> Unset]

\* `except Exception as e: ... return {}` of extract_attributes
OnExtractError(e) == Dict(<<>>)

\* Variant: a sleep after every transient error, the last attempt included.
SleepsAfter_Always(k) == TRUE

\* `if attempt < max_retries: time.sleep(sleep_seconds) else: break`
SleepsAfter(k) == k < max_retries

\* The for loop of chat_completion is still running.
Attempting == pc = "extract" /\ attempt <= max_retries

\* The API call returns: `return response.choices[0].message.content.strip()`
ApiSuccess ==
    /\ Attempting
    /\ api_calls' = api_calls + 1
    /\ raw_response' \in ReplySamples
    /\ pc' = "parse"
    /\ UNCHANGED <<raw_filters, idx, filters, where_filter, where_arg, exc>>
    /\ UNCHANGED <<attempt, sleeps, last_error, llm_error, extracted>>
    /\ UNCHANGED <<indexVars, repeatVars, schemaVars, laterVars>>

\* `except (APIConnectionError, RateLimitError, InternalServerError)`
ApiTransientError ==
    /\ Attempting
    /\ api_calls' = api_calls + 1
    /\ \E e \in ApiErrors : IsTransient(e) /\ last_error' = e
    /\ pc' = IF SleepsAfter(attempt) THEN "sleep" ELSE "exhausted"
    /\ UNCHANGED <<raw_filters, idx, filters, where_filter, where_arg, exc>>
    /\ UNCHANGED <<attempt, sleeps, raw_response, llm_error, extracted>>
    /\ UNCHANGED <<indexVars, repeatVars, schemaVars, laterVars>>

\* `except Exception: raise RuntimeError(f"Unexpected error: {e}")`, which
\* leaves extract_json and is caught by extract_attributes.
ApiOtherError ==
    /\ Attempting
    /\ api_calls' = api_calls + 1
    /\ \E e \in ApiErrors :
          /\ ~IsTransient(e)
          /\ llm_error' = "RuntimeError: Unexpected error"
          /\ extracted' = OnExtractError("RuntimeError")
    /\ pc' = "compile"
    /\ UNCHANGED <<raw_filters, idx, filters, where_filter, where_arg, exc>>
    /\ UNCHANGED <<attempt, sleeps, last_error, raw_response>>
    /\ UNCHANGED <<indexVars, repeatVars, schemaVars, laterVars>>

\* time.sleep(sleep_seconds), then the next iteration of the for loop, or
\* its end when the range is used up.
Sleep ==
    /\ pc = "sleep"
    /\ sleeps' = sleeps + 1
    /\ attempt' = attempt + 1
    /\ pc' = IF attempt + 1 <= max_retries THEN "extract" ELSE "exhausted"
    /\ UNCHANGED <<raw_filters, idx, filters, where_filter, where_arg, exc>>
    /\ UNCHANGED <<api_calls, last_error, raw_response, llm_error, extracted>>
    /\ UNCHANGED <<indexVars, repeatVars, schemaVars, laterVars>>

\* `raise RuntimeError(f"Groq API failed after {max_retries} attempts")`,
\* caught by extract_attributes.
RaiseExhausted ==
    /\ pc = "exhausted"
    /\ llm_error' = "RuntimeError: Groq API failed"
    /\ extracted' = OnExtractError("RuntimeError")
    /\ pc' = "compile"
    /\ UNCHANGED <<raw_filters, idx, filters, where_filter, where_arg, exc>>
    /\ UNCHANGED <<attempt, api_calls, sleeps, last_error, raw_response>>
    /\ UNCHANGED <<indexVars, repeatVars, schemaVars, laterVars>>

\* extract_json: `return json.loads(raw_response)`, or ValueError, which
\* extract_attributes catches.
ParseReply ==
    /\ pc = "parse"
    /\ LET r == JsonLoads(raw_response)
       IN  IF r.exc = "none"
           THEN /\ extracted' = r.v
                /\ UNCHANGED llm_error
           ELSE /\ llm_error' = "ValueError"
                /\ extracted' = OnExtractError("ValueError")
    /\ pc' = "compile"
    /\ UNCHANGED <<raw_filters, idx, filters, where_filter, where_arg, exc>>
    /\ UNCHANGED <<attempt, api_calls, sleeps, last_error, raw_response>>
    /\ UNCHANGED <<indexVars, repeatVars, schemaVars, laterVars>>

\* Step 3 starts: `filters = []` and `raw_filters.items()`, which only a
\* dict has; the AttributeError is logged and re-raised by search_products.
BeginCompile ==
    /\ pc = "compile"
    /\ IF extracted.t = "dict"
       THEN /\ raw_filters' = extracted.d
            /\ filters' = FreshFilters
            /\ idx' = 1
            /\ pc' = "loop"
            /\ UNCHANGED exc
       ELSE /\ pc' = "raised"
            /\ exc' = "AttributeError"
            /\ UNCHANGED <<raw_filters, filters, idx>>
    /\ UNCHANGED <<where_filter, where_arg>>
    /\ UNCHANGED extVars


(***************************************************************************)
(* The vector index round-trip. collection.query returns parallel arrays; *)
(* results["documents"][0] and its siblings are sequences here, and an    *)
(* array the store did not include is the empty sequence.                 *)
(***************************************************************************)
MaxResults == 2   \* candidates the index returns

DocSamples == {[doc |-> "A"], [doc |-> "B"]}
MetaSamples == {[meta |-> "A"], [meta |-> "B"]}
IdSamples == {[id |-> "A"], [id |-> "B"]}
DistanceSamples == {Num(1), Num(2)}

ResultsOfLen(n) ==
    {[documents |-> d, metadatas |-> m, ids |-> i, distances |-> x] :
        d \in [1..n -> DocSamples],
        m \in [1..n -> MetaSamples] \cup {<<>>},
        i \in [1..n -> IdSamples] \cup {<<>>},
        x \in [1..n -> DistanceSamples] \cup {<<>>}}

ResultSamples == UNION {ResultsOfLen(n) : n \in 0..MaxResults}

IndexErrors == {"IndexQueryError"}

\* Variant: the error is logged and an empty list returned.
HandleException_Swallow(e) == [pc |-> "done", exc |-> "none", returned |-> Returned(<<>>)]

\* `except Exception as e: logger.error(...); raise`
HandleException(e) == [pc |-> "raised", exc |-> e, returned |-> NotReturned]

\* Variant: the metadata subscript [i] is missing.
Reassemble_FirstMetadata(res) ==
    IF res.documents # <<>>
    THEN [i \in 1..Len(res.documents) |->
            [document |-> res.documents[i],
             metadata |-> IF res.metadatas # <<>> THEN res.metadatas[1] ELSE Dict(<<>>),
             id |-> IF res.ids # <<>> THEN res.ids[i] ELSE None,
             distance |-> IF res.distances # <<>> THEN res.distances[i] ELSE None]]
    ELSE <<>>

\* Step 5: one record per document, its fields taken at the same position.
Reassemble(res) ==
    IF res.documents # <<>>
    THEN [i \in 1..Len(res.documents) |->
            [document |-> res.documents[i],
             metadata |-> IF res.metadatas # <<>> THEN res.metadatas[i] ELSE Dict(<<>>),
             id |-> IF res.ids # <<>> THEN res.ids[i] ELSE None,
             distance |-> IF res.distances # <<>> THEN res.distances[i] ELSE None]]
    ELSE <<>>

\* Step 4 succeeds.
QueryOk ==
    /\ pc = "query"
    /\ where_arg' = WhereArg(where_filter)
    /\ query_calls' = query_calls + 1
    /\ results' \in ResultSamples
    /\ pc' = "format"
    /\ UNCHANGED <<raw_filters, idx, filters, where_filter, exc>>
    /\ UNCHANGED <<query_error, returned>>
    /\ UNCHANGED <<llmVars, repeatVars, schemaVars, laterVars>>

\* Step 4 raises: the except clause of search_products takes over.
QueryFails ==
    /\ pc = "query"
    /\ where_arg' = WhereArg(where_filter)
    /\ query_calls' = query_calls + 1
    /\ query_error' \in IndexErrors
    /\ LET h == HandleException(query_error')
       IN  /\ pc' = h.pc
           /\ exc' = h.exc
           /\ returned' = h.returned
    /\ UNCHANGED <<raw_filters, idx, filters, where_filter>>
    /\ UNCHANGED results
    /\ UNCHANGED <<llmVars, repeatVars, schemaVars, laterVars>>

\* Step 5 and `return products`.
Format ==
    /\ pc = "format"
    /\ returned' = Returned(Reassemble(results))
    /\ pc' = "done"
    /\ UNCHANGED <<raw_filters, idx, filters, where_filter, where_arg, exc>>
    /\ UNCHANGED <<query_calls, query_error, results>>
    /\ UNCHANGED <<llmVars, repeatVars, schemaVars, laterVars>>

NextSearch ==
    \/ ApiSuccess
    \/ ApiTransientError
    \/ ApiOtherError
    \/ Sleep
    \/ RaiseExhausted
    \/ ParseReply
    \/ BeginCompile
    \/ SkipNone
    \/ AgeClause
    \/ RangeClause
    \/ ScalarClause
    \/ Combine
    \/ QueryOk
    \/ QueryFails
    \/ Format

SpecSearch == Init /\ [][NextSearch]_vars

(***************************************************************************)
(* csv_schema_loader: the schema file of a catalog, load_attribute_schema_ *)
(* from_file and get_attribute_schema with its process-wide cache.         *)
(***************************************************************************)
\* What a schema file can hold: text json.load rejects, or a JSON value.
Malformed == [st |-> "malformed"]
JsonFile(v) == [st |-> "json", v |-> v]

SchemaA == Dict(<<Entry("color", Dict(<<>>))>>)
SchemaB == Dict(<<Entry("color", Dict(<<>>)), Entry("price", Dict(<<>>))>>)
SchemaFileValues == {SchemaA, SchemaB, List(<<>>), Num(3)}
FileStates == {NoFile, Malformed} \cup {JsonFile(v) : v \in SchemaFileValues}

\* len(schema) in the logger.info call: a number, bool or None has no len().
HasLen(v) == v.t \in {"dict", "list", "str"}

load_attribute_schema_from_file(file) ==
    IF file.st = "absent"
    THEN [exc |-> "FileNotFoundError", opened |-> FALSE, schema |-> Unset]
    ELSE IF file.st = "malformed"
    THEN [exc |-> "JSONDecodeError", opened |-> TRUE, schema |-> Unset]
    ELSE IF ~HasLen(file.v)
    THEN [exc |-> "TypeError", opened |-> TRUE, schema |-> Unset]
    ELSE [exc |-> "none", opened |-> TRUE, schema |-> file.v]

\* Variant: every failure is reported as an invalid schema file.
ErrorFor_AlwaysInvalid(e) == "RuntimeError: Invalid schema file"

\* The three except clauses of get_attribute_schema.
ErrorFor(e) ==
    CASE e = "FileNotFoundError" -> "RuntimeError: Schema not configured"
      [] e = "JSONDecodeError" -> "RuntimeError: Invalid schema file"
      [] OTHER -> "RuntimeError: Failed to load schema"

\* Variant: the cache is never consulted.
CacheHit_Never(ch, c) == FALSE

\* `if catalog_name in _SCHEMA_CACHE`
CacheHit(ch, c) == ch[c] # Absent

\* Variant: the cache is replaced by one holding only the new entry.
CacheStore_Rebind(ch, c, schema) == [x \in Catalogs |-> IF x = c THEN schema ELSE Absent]

\* `_SCHEMA_CACHE[catalog_name] = schema`
CacheStore(ch, c, schema) == [ch EXCEPT ![c] = schema]

Completed(c, outcome, v, e, accessed, file) ==
    [n |-> last_call.n + 1, c |-> c, outcome |-> outcome, value |-> v,
     error |-> e, accessed |-> accessed, file |-> file]

\* One whole get_attribute_schema(c) call, no other call overlapping it.
GetSchema(c) ==
    /\ last_call.n < MaxCalls
    /\ IF CacheHit(cache, c)
       THEN /\ last_call' = Completed(c, "returned", cache[c], "none", FALSE, Unset)
            /\ UNCHANGED <<cache, file_reads>>
       ELSE LET r == load_attribute_schema_from_file(files[c])
            IN  /\ file_reads' = [file_reads EXCEPT ![c] = @ + (IF r.opened THEN 1 ELSE 0)]
                /\ IF r.exc = "none"
                   THEN /\ cache' = CacheStore(cache, c, r.schema)
                        /\ last_call' = Completed(c, "returned", r.schema, "none", TRUE, files[c])
                   ELSE /\ UNCHANGED cache
                        /\ last_call' = Completed(c, "raised", Unset, ErrorFor(r.exc), TRUE, files[c])
    /\ UNCHANGED <<files, threads>>
    /\ UNCHANGED <<searchVars, llmVars, indexVars, repeatVars, laterVars>>

\* The file system, outside the program: a schema file is written or rewritten.
WriteFile(c) ==
    /\ \E f \in FileStates \ {NoFile, files[c]} : files' = [files EXCEPT ![c] = f]
    /\ UNCHANGED <<cache, file_reads, last_call, threads>>
    /\ UNCHANGED <<searchVars, llmVars, indexVars, repeatVars, laterVars>>

\* A schema file is deleted.
DeleteFile(c) ==
    /\ files[c] # NoFile
    /\ files' = [files EXCEPT ![c] = NoFile]
    /\ UNCHANGED <<cache, file_reads, last_call, threads>>
    /\ UNCHANGED <<searchVars, llmVars, indexVars, repeatVars, laterVars>>

NextSchema ==
    \/ \E c \in Catalogs : GetSchema(c)
    \/ \E c \in Catalogs : WriteFile(c)
    \/ \E c \in Catalogs : DeleteFile(c)

SpecSchema == Init /\ [][NextSchema]_vars

(***************************************************************************)
(* get_attribute_schema called from several threads at once, statement by *)
(* statement, on schema files that stay as they were put in place.         *)
(***************************************************************************)
NoneStarted == \A t \in Threads : threads[t] = Idle

\* The schema files are put in place before the first call.
SetUpFile(c) ==
    /\ NoneStarted
    /\ \E f \in FileStates \ {files[c]} : files' = [files EXCEPT ![c] = f]
    /\ UNCHANGED <<cache, file_reads, last_call, threads>>
    /\ UNCHANGED <<searchVars, llmVars, indexVars, repeatVars, laterVars>>

\* A thread enters get_attribute_schema(c).
Call(t, c) ==
    /\ threads[t].pc = "idle"
    /\ threads' = [threads EXCEPT ![t] = [@ EXCEPT !.pc = "check", !.c = c]]
    /\ UNCHANGED <<files, cache, file_reads, last_call>>
    /\ UNCHANGED <<searchVars, llmVars, indexVars, repeatVars, laterVars>>

\* `if catalog_name in _SCHEMA_CACHE: return _SCHEMA_CACHE[catalog_name]`
CheckCache(t) ==
    /\ threads[t].pc = "check"
    /\ threads' = [threads EXCEPT ![t] =
          IF CacheHit(cache, threads[t].c)
          THEN [@ EXCEPT !.pc = "done", !.ret = cache[threads[t].c]]
          ELSE [@ EXCEPT !.pc = "load"]]
    /\ UNCHANGED <<files, cache, file_reads, last_call>>
    /\ UNCHANGED <<searchVars, llmVars, indexVars, repeatVars, laterVars>>

\* `schema = load_attribute_schema_from_file(schema_path)`, or the except
\* clause that matches what it raised.
Load(t) ==
    /\ threads[t].pc = "load"
    /\ LET c == threads[t].c
           r == load_attribute_schema_from_file(files[c])
       IN  /\ file_reads' = [file_reads EXCEPT ![c] = @ + (IF r.opened THEN 1 ELSE 0)]
           /\ threads' = [threads EXCEPT ![t] =
                 IF r.exc = "none"
                 THEN [@ EXCEPT !.pc = "store", !.schema = r.schema]
                 ELSE [@ EXCEPT !.pc = "raised", !.error = ErrorFor(r.exc)]]
    /\ UNCHANGED <<files, cache, last_call>>
    /\ UNCHANGED <<searchVars, llmVars, indexVars, repeatVars, laterVars>>

\* `_SCHEMA_CACHE[catalog_name] = schema`
Store(t) ==
    /\ threads[t].pc = "store"
    /\ cache' = CacheStore(cache, threads[t].c, threads[t].schema)
    /\ threads' = [threads EXCEPT ![t] = [@ EXCEPT !.pc = "return"]]
    /\ UNCHANGED <<files, file_reads, last_call>>
    /\ UNCHANGED <<searchVars, llmVars, indexVars, repeatVars, laterVars>>

\* `return schema`
Return(t) ==
    /\ threads[t].pc = "return"
    /\ threads' = [threads EXCEPT ![t] = [@ EXCEPT !.pc = "done", !.ret = threads[t].schema]]
    /\ UNCHANGED <<files, cache, file_reads, last_call>>
    /\ UNCHANGED <<searchVars, llmVars, indexVars, repeatVars, laterVars>>

NextSchemaRace ==
    \/ \E c \in Catalogs : SetUpFile(c)
    \/ \E t \in Threads, c \in Catalogs : Call(t, c)
    \/ \E t \in Threads : CheckCache(t)
    \/ \E t \in Threads : Load(t)
    \/ \E t \in Threads : Store(t)
    \/ \E t \in Threads : Return(t)

SpecSchemaRace == Init /\ [][NextSchemaRace]_vars

(***************************************************************************)
(* The search_products tool of the agent (product_search_tool.py): the    *)
(* service is asked for candidates, the schema is fetched, and every      *)
(* candidate is formatted into {document fields} + {schema attributes}.   *)
(* A formatted product is a function from its keys to their values.       *)
(***************************************************************************)
MaxCandidates == 2   \* candidates the service hands to the tool

S_t1 == <<"t", "1">>
S_t2 == <<"t", "2">>
S_p1 == <<"P", "1">>
S_p2 == <<"P", "2">>
S_x == <<"x">>
EmptyStr == Str(<<>>)

\* product["document"]: text json.loads rejects, or the text of a JSON value.
NotJsonBlob == [b |-> "not_json"]
JsonBlob(v) == [b |-> "json", v |-> v]

\* Candidates in the shape ProductSearchService.search_products gives them.
Candidate(id, document, metadata) == [id |-> id, document |-> document, metadata |-> metadata]

CandidateSamples ==
    {Candidate(Str(S_p1),
               JsonBlob(Dict(<<Entry("title", Str(S_t1))>>)),
               Dict(<<Entry("color", Str(S_red)), Entry("product_id", Str(S_p1)),
                      Entry("stock", Str(S_x))>>)),
     Candidate(Str(S_p2),
               JsonBlob(Dict(<<Entry("title", Str(S_t2)), Entry("product_id", Str(S_p2))>>)),
               Dict(<<Entry("price", Str(S_x))>>)),
     Candidate(Str(S_p1), NotJsonBlob, Dict(<<Entry("color", Str(S_red))>>)),
     Candidate(Str(S_p2), JsonBlob(List(<<>>)), Dict(<<Entry("color", Str(S_red))>>)),
     Candidate(Str(S_p2), JsonBlob(Dict(<<Entry("title", Str(S_t2))>>)), Null)}

CandidateLists == UNION {[1..n -> CandidateSamples] : n \in 0..MaxCandidates}

\* A schema whose attributes include product_id.
SchemaP == Dict(<<Entry("product_id", Dict(<<>>)), Entry("color", Dict(<<>>))>>)

\* What get_attribute_schema can return: a cached value of any JSON type
\* that has a len().
ToolSchemas == {SchemaA, SchemaB, SchemaP, List(<<>>)}

DocumentColumnSets == {{}, {"title"}, {"title", "product_id"}}

\* csv_schema_generator leaves the document columns out of the schema.
AttrNames(schema) == {schema.d[i].key : i \in 1..Len(schema.d)}
Consistent(schema, cols) == schema.t = "dict" => AttrNames(schema) \cap cols = {}

\* d.get(k, default) on a dict.
DictGet(d, k, default) ==
    IF \E i \in 1..Len(d.d) : d.d[i].key = k
    THEN d.d[CHOOSE i \in 1..Len(d.d) : d.d[i].key = k].value
    ELSE default

\* Variant: every key of the metadata is copied, not only the schema's.
FormatProduct_AllMetadata(doc, metadata, schema, cols) ==
    LET meta_keys == {metadata.d[i].key : i \in 1..Len(metadata.d)}
    IN  [k \in cols \cup AttrNames(schema) \cup meta_keys |->
            IF k \in meta_keys \cup AttrNames(schema) THEN DictGet(metadata, k, EmptyStr)
            ELSE DictGet(doc, k, EmptyStr)]

\* The two loops over DOCUMENT_COLUMNS and ATTRIBUTE_SCHEMA.items(); a key
\* in both ends up with the metadata value, which is written last.
FormatProduct(doc, metadata, schema, cols) ==
    [k \in cols \cup AttrNames(schema) |->
        IF k \in AttrNames(schema) THEN DictGet(metadata, k, EmptyStr)
        ELSE DictGet(doc, k, EmptyStr)]

\* The body of the per-product try: json.loads, doc.get, schema.items(),
\* metadata.get, each of which raises on a value of the wrong type.
FormatOne(cand, schema, cols) ==
    IF cand.document.b # "json" THEN [exc |-> "JSONDecodeError", product |-> Unset]
    ELSE IF cols # {} /\ cand.document.v.t # "dict"
    THEN [exc |-> "AttributeError", product |-> Unset]
    ELSE IF schema.t # "dict" THEN [exc |-> "AttributeError", product |-> Unset]
    ELSE IF AttrNames(schema) # {} /\ cand.metadata.t # "dict"
    THEN [exc |-> "AttributeError", product |-> Unset]
    ELSE [exc |-> "none",
          product |-> FormatProduct(cand.document.v, cand.metadata, schema, cols)]

\* Variant: a candidate that fails to format ends the loop (n candidates).
AfterFormatError_Break(i, n) == n + 1

\* `except Exception as e: logger.warning(...); continue`: the index of the
\* candidate the loop turns to after candidate i of n failed.
AfterFormatError(i, n) == i + 1

NotFound(why) == [found |-> FALSE, why |-> why, products |-> <<>>]
Found(products) == [found |-> TRUE, count |-> Len(products), products |-> products]

\* products = product_service.search_products(query, n_results=5): it
\* raises, returns nothing, or returns candidates; DOCUMENT_COLUMNS is read
\* from the environment.
ToolSearch ==
    /\ tool_pc = "idle"
    /\ \/ /\ tool_pc' = "returned"
          /\ tool_out' = NotFound("error")
          /\ UNCHANGED <<candidates, doc_cols>>
       \/ /\ candidates' = <<>>
          /\ tool_pc' = "returned"
          /\ tool_out' = NotFound("No products found")
          /\ UNCHANGED doc_cols
       \/ /\ candidates' \in CandidateLists \ {<<>>}
          /\ doc_cols' \in DocumentColumnSets
          /\ tool_pc' = "schema"
          /\ UNCHANGED tool_out
    /\ UNCHANGED <<tool_schema, tool_i, formatted, kept_from>>
    /\ UNCHANGED <<coreVars, agentVars, sessVars>>

\* ATTRIBUTE_SCHEMA = get_attribute_schema(CATALOG_NAME); its RuntimeError
\* reaches the outer except clause.
ToolLoadSchema ==
    /\ tool_pc = "schema"
    /\ \/ /\ tool_schema' \in {sc \in ToolSchemas : Consistent(sc, doc_cols)}
          /\ formatted' = <<>>
          /\ kept_from' = <<>>
          /\ tool_i' = 1
          /\ tool_pc' = "format"
          /\ UNCHANGED tool_out
       \/ /\ tool_pc' = "returned"
          /\ tool_out' = NotFound("error")
          /\ UNCHANGED <<tool_schema, formatted, kept_from, tool_i>>
    /\ UNCHANGED <<candidates, doc_cols>>
    /\ UNCHANGED <<coreVars, agentVars, sessVars>>

\* One iteration of `for product in products:`.
ToolFormatNext ==
    /\ tool_pc = "format"
    /\ tool_i <= Len(candidates)
    /\ LET r == FormatOne(candidates[tool_i], tool_schema, doc_cols)
       IN  IF r.exc = "none"
           THEN /\ formatted' = Append(formatted, r.product)
                /\ kept_from' = Append(kept_from, tool_i)
                /\ tool_i' = tool_i + 1
                /\ UNCHANGED tool_pc
           ELSE /\ tool_i' = AfterFormatError(tool_i, Len(candidates))
                /\ UNCHANGED <<formatted, kept_from, tool_pc>>
    /\ UNCHANGED <<candidates, doc_cols, tool_schema, tool_out>>
    /\ UNCHANGED <<coreVars, agentVars, sessVars>>

\* `return json.dumps({"found": True, "count": ..., "products": ...})`
ToolReturn ==
    /\ tool_pc = "format"
    /\ tool_i > Len(candidates)
    /\ tool_out' = Found(formatted)
    /\ tool_pc' = "returned"
    /\ UNCHANGED <<candidates, doc_cols, tool_schema, tool_i, formatted, kept_from>>
    /\ UNCHANGED <<coreVars, agentVars, sessVars>>

NextTool ==
    \/ ToolSearch
    \/ ToolLoadSchema
    \/ ToolFormatNext
    \/ ToolReturn

SpecTool == Init /\ [][NextTool]_vars

(***************************************************************************)
(* AgentService (agent_service.py): the per-session executors and         *)
(* memories, generate_response with its product extraction loop, and the  *)
(* routes that call them (routers/search.py, routers/sessions.py).  The   *)
(* handlers are `async def` without an await, so requests do not          *)
(* interleave.                                                             *)
(***************************************************************************)
MaxSteps == 2       \* intermediate steps of one agent run
MaxExecutors == 3   \* executors created in one behaviour
MaxTurns == 2       \* turns saved in one memory

ChatGroq == [t |-> "ChatGroq"]

\* The methods class AgentService defines.
AgentServiceMethods ==
    {"__init__", "get_executor", "create_session", "get_all_sessions", "reset_session",
     "get_session_history", "generate_response", "_get_fallback_response",
     "generate_recommendations", "_get_fallback_recommendations"}

\* An AgentExecutor and the ConversationBufferWindowMemory made with it.
Executor(n) == [id |-> n]
Memory(n, turns) == [id |-> n, turns |-> turns]

Op(op, s, ret, was_live) == [op |-> op, s |-> s, ret |-> ret, was_live |-> was_live]

\* __init__: ChatGroq and the tool are built and the two maps are created;
\* when that raises, self.llm is None and the maps are never assigned.
Construct ==
    /\ llm = Unset
    /\ \/ llm' = ChatGroq
       \/ llm' = None
    /\ UNCHANGED <<agent_pc, agent_result, steps_seen, products_dict, seen, gen_result,
                   route_response>>
    /\ UNCHANGED <<coreVars, toolVars, sessVars>>

\* `if session_id in self.sessions`
GetExecutorHit(ss, s) == ss[s] # Absent

\* get_executor(s): the maps and the counter after the call, and the
\* executor returned.
get_executor(ss, mm, n, s) ==
    IF GetExecutorHit(ss, s)
    THEN [sessions |-> ss, memories |-> mm, next |-> n, ret |-> ss[s]]
    ELSE [sessions |-> [ss EXCEPT ![s] = Executor(n)],
          memories |-> [mm EXCEPT ![s] = Memory(n, 0)],
          next |-> n + 1,
          ret |-> Executor(n)]

\* A get_executor call the bound on executors leaves room for.
CanGet(s) == sessions[s] # Absent \/ next_executor <= MaxExecutors

GetExecutor(s) ==
    /\ agent_pc = "idle"
    /\ llm = ChatGroq
    /\ CanGet(s)
    /\ LET r == get_executor(sessions, memories, next_executor, s)
       IN  /\ sessions' = r.sessions
           /\ memories' = r.memories
           /\ next_executor' = r.next
           /\ sess_last' = Op("get_executor", s, r.ret, sessions[s] # Absent)
    /\ UNCHANGED <<coreVars, toolVars, agentVars>>

\* create_session: a uuid4 no live session has, then get_executor.
CreateSession ==
    /\ agent_pc = "idle"
    /\ llm = ChatGroq
    /\ \E s \in SessionIds \ {"default"} :
           /\ sessions[s] = Absent
           /\ CanGet(s)
           /\ LET r == get_executor(sessions, memories, next_executor, s)
              IN  /\ sessions' = r.sessions
                  /\ memories' = r.memories
                  /\ next_executor' = r.next
                  /\ sess_last' = Op("create_session", s, Str(s), FALSE)
    /\ UNCHANGED <<coreVars, toolVars, agentVars>>

\* Variant: reset_session leaves the memory of the session in place.
ResetMemories_Keep(ss, mm, s) == mm

\* `if session_id in self.memories: del self.memories[session_id]`, inside
\* `if session_id in self.sessions`.
ResetMemories(ss, mm, s) ==
    IF ss[s] # Absent /\ mm[s] # Absent THEN [mm EXCEPT ![s] = Absent] ELSE mm

\* reset_session(s): the maps after the call and the value returned.
reset_session(ss, mm, s) ==
    IF ss[s] # Absent
    THEN [sessions |-> [ss EXCEPT ![s] = Absent], memories |-> ResetMemories(ss, mm, s),
          ret |-> TRUE]
    ELSE [sessions |-> ss, memories |-> mm, ret |-> FALSE]

ResetSession(s) ==
    /\ agent_pc = "idle"
    /\ llm = ChatGroq
    /\ LET r == reset_session(sessions, memories, s)
       IN  /\ sessions' = r.sessions
           /\ memories' = r.memories
           /\ sess_last' = Op("reset_session", s, r.ret, sessions[s] # Absent)
    /\ UNCHANGED next_executor
    /\ UNCHANGED <<coreVars, toolVars, agentVars>>

\* reset_session for every key of get_all_sessions(), one after the other.
RECURSIVE ResetAll(_, _, _)
ResetAll(ss, mm, ids) ==
    IF ids = {} THEN [sessions |-> ss, memories |-> mm]
    ELSE LET s == CHOOSE x \in ids : TRUE
             r == reset_session(ss, mm, s)
         IN  ResetAll(r.sessions, r.memories, ids \ {s})

Live == {s \in SessionIds : sessions[s] # Absent}

\* DELETE /sessions
ClearAllSessions ==
    /\ agent_pc = "idle"
    /\ llm = ChatGroq
    /\ Live # {}
    /\ LET r == ResetAll(sessions, memories, Live)
       IN  /\ sessions' = r.sessions
           /\ memories' = r.memories
           /\ sess_last' = Op("clear_all_sessions", "all", Cardinality(Live), TRUE)
    /\ UNCHANGED next_executor
    /\ UNCHANGED <<coreVars, toolVars, agentVars>>

\* GET /sessions/{id}/history: the messages of the memory, two a turn, or
\* 404 when there is neither history nor session.
GetSessionHistory(s) ==
    /\ agent_pc = "idle"
    /\ llm = ChatGroq
    /\ LET history == IF memories[s] # Absent THEN 2 * memories[s].turns ELSE 0
       IN  sess_last' = Op("get_session_history", s,
                           IF history = 0 /\ sessions[s] = Absent THEN "404" ELSE history,
                           sessions[s] # Absent)
    /\ sess_last' # sess_last
    /\ UNCHANGED <<sessions, memories, next_executor>>
    /\ UNCHANGED <<coreVars, toolVars, agentVars>>

\* Without the maps every session method ends in an AttributeError.
SessionCallFails ==
    /\ agent_pc = "idle"
    /\ llm = None
    /\ \E op \in {"create_session", "reset_session", "get_session_history"} :
           \E s \in SessionIds : sess_last' = Op("AttributeError", s, op, FALSE)
    /\ sess_last' # sess_last
    /\ UNCHANGED <<sessions, memories, next_executor>>
    /\ UNCHANGED <<coreVars, toolVars, agentVars>>

\* Products as the tool hands them over, and the observations of a step.
P1a == [product_id |-> Str(S_p1), title |-> Str(S_t1)]
P1b == [product_id |-> Str(S_p1), title |-> Str(S_t2)]
P2 == [product_id |-> Str(S_p2), title |-> Str(S_t2)]
NoId == [title |-> Str(S_t1)]
EmptyId == [product_id |-> EmptyStr, title |-> Str(S_t1)]

ObservationSamples ==
    {NotJsonBlob,
     JsonBlob(NotFound("No products found")),
     JsonBlob(Found(<<P1a, P2>>)),
     JsonBlob(Found(<<P1b>>)),
     JsonBlob(Found(<<P2, P1a>>)),
     JsonBlob(Found(<<NoId, P1b, EmptyId>>))}

Step(tool, observation) == [tool |-> tool, observation |-> observation]
StepSamples == {Step(t, o) : t \in {"search_products", "other_tool"}, o \in ObservationSamples}

\* p.get("product_id") and its truth value.
ProductId(p) == IF "product_id" \in DOMAIN p THEN p.product_id ELSE None
Truthy(v) == v # None /\ v # EmptyStr

\* Variant: an id met again moves to the end of the dict.
DictSet_MoveToEnd(d, k, v) ==
    Append(SelectSeq(d, LAMBDA e : e.key # k), Entry(k, v))

\* products_dict[pid] = p on a dict that keeps insertion order.
DictSet(d, k, v) ==
    IF \E i \in 1..Len(d) : d[i].key = k
    THEN [i \in 1..Len(d) |-> IF d[i].key = k THEN Entry(k, v) ELSE d[i]]
    ELSE Append(d, Entry(k, v))

\* `for p in obs_data["products"]: pid = p.get("product_id"); if pid: ...`
RECURSIVE AddProducts(_, _)
AddProducts(d, products) ==
    IF products = <<>> THEN d
    ELSE LET p == Head(products)
         IN  AddProducts(IF Truthy(ProductId(p)) THEN DictSet(d, ProductId(p), p) ELSE d,
                         Tail(products))

\* The body of `for action, observation in intermediate_steps`.
ExtractProducts(d, step) ==
    IF step.tool # "search_products" THEN d
    ELSE IF step.observation.b # "json" THEN d
    ELSE IF step.observation.v.found /\ step.observation.v.products # <<>>
    THEN AddProducts(d, step.observation.v.products)
    ELSE d

\* list(products_dict.values())
Values(d) == [i \in 1..Len(d) |-> d[i].value]

FallbackText == Str(<<"f", "b">>)
Fallback == [response_text |-> FallbackText, products |-> <<>>]

Invocation(s, outcome, output) == [session_id |-> s, outcome |-> outcome, output |-> output]

\* result.get("output", "")
ResponseText(result) == IF result.output = Unset THEN EmptyStr ELSE result.output

\* generate_response up to executor.invoke: the fallback without an LLM,
\* else get_executor and the agent run, which raises or returns its output
\* after saving the turn in the memory of the session.
AgentInvoke(s) ==
    /\ agent_pc = "idle"
    /\ llm # Unset
    /\ steps_seen' = 0
    /\ products_dict' = <<>>
    /\ seen' = <<>>
    /\ route_response' = Unset
    /\ IF llm = None
       THEN /\ agent_result' = Invocation(s, "no_llm", Unset)
            /\ gen_result' = Fallback
            /\ agent_pc' = "generated"
            /\ UNCHANGED sessVars
       ELSE /\ CanGet(s)
            /\ LET r == get_executor(sessions, memories, next_executor, s)
               IN  /\ sessions' = r.sessions
                   /\ next_executor' = r.next
                   /\ sess_last' = Op("get_executor", s, r.ret, sessions[s] # Absent)
                   /\ \/ /\ memories' = r.memories
                         /\ agent_result' = Invocation(s, "raised", Unset)
                         /\ gen_result' = Fallback
                         /\ agent_pc' = "generated"
                      \/ /\ r.memories[s].turns < MaxTurns
                         /\ memories' = [r.memories EXCEPT ![s].turns = @ + 1]
                         /\ \E o \in {EmptyStr, Str(S_x)} :
                                agent_result' = Invocation(s, "returned", o)
                         /\ gen_result' = Unset
                         /\ agent_pc' = "steps"
    /\ UNCHANGED llm
    /\ UNCHANGED <<coreVars, toolVars>>

\* One intermediate step of the result goes through the extraction loop.
AgentStep ==
    /\ agent_pc = "steps"
    /\ steps_seen < MaxSteps
    /\ \E step \in StepSamples :
           /\ products_dict' = ExtractProducts(products_dict, step)
           /\ seen' = IF step.tool = "search_products" /\ step.observation.b = "json"
                         /\ step.observation.v.found
                      THEN seen \o SelectSeq(step.observation.v.products,
                                             LAMBDA p : Truthy(ProductId(p)))
                      ELSE seen
    /\ steps_seen' = steps_seen + 1
    /\ UNCHANGED <<agent_pc, agent_result, llm, gen_result, route_response>>
    /\ UNCHANGED <<coreVars, toolVars, sessVars>>

\* The end of the loop: the fallback for an empty output, else the output
\* with the values of products_dict.
AgentFinish ==
    /\ agent_pc = "steps"
    /\ gen_result' = IF ResponseText(agent_result) = EmptyStr THEN Fallback
                     ELSE [response_text |-> ResponseText(agent_result),
                           products |-> Values(products_dict)]
    /\ agent_pc' = "generated"
    /\ UNCHANGED <<agent_result, steps_seen, products_dict, seen, llm, route_response>>
    /\ UNCHANGED <<coreVars, toolVars, sessVars>>

\* ProductResult(id=p.get("product_id"), title=p.get("title", ...), ...)
FormatResults(products) ==
    [j \in 1..Len(products) |->
        [id |-> ProductId(products[j]),
         title |-> IF "title" \in DOMAIN products[j] THEN products[j].title
                   ELSE Str(<<"U">>)]]

ErrorResponse(e) ==
    [success |-> FALSE, response_text |-> Str(<<"S", "w", "w">>), session_id |-> None,
     products |-> <<>>, error_message |-> e]

\* The rest of POST /api/v1/search: the products are formatted, then
\* agent_service.generate_follow_ups is called; a method the object does
\* not have is an AttributeError, which the route's except clause answers.
SearchResponse(request, result) ==
    IF "generate_follow_ups" \notin AgentServiceMethods THEN ErrorResponse("AttributeError")
    ELSE [success |-> TRUE, response_text |-> result.response_text,
          session_id |-> request.session_id, products |-> FormatResults(result.products),
          error_message |-> None]

\* The response is sent and the locals of the request end with it.
SearchRoute ==
    /\ agent_pc = "generated"
    /\ route_response' = SearchResponse(agent_result, gen_result)
    /\ agent_pc' = "idle"
    /\ agent_result' = Unset
    /\ gen_result' = Unset
    /\ steps_seen' = 0
    /\ products_dict' = <<>>
    /\ seen' = <<>>
    /\ UNCHANGED llm
    /\ UNCHANGED <<coreVars, toolVars, sessVars>>

NextAgent ==
    \/ Construct
    \/ \E s \in SessionIds : GetExecutor(s)
    \/ CreateSession
    \/ \E s \in SessionIds : ResetSession(s)
    \/ ClearAllSessions
    \/ \E s \in SessionIds : GetSessionHistory(s)
    \/ SessionCallFails
    \/ \E s \in SessionIds : AgentInvoke(s)
    \/ AgentStep
    \/ AgentFinish
    \/ SearchRoute

SpecAgent == Init /\ [][NextAgent]_vars

(***************************************************************************)
(* Vocabulary of the properties.                                           *)
(***************************************************************************)
\* A Python number: int or float, and bool, which is a subclass of int.
IsNumber(v) == v.t \in {"num", "bool"}

HasOp(d, op) == \E j \in 1..Len(d) : d[j].op = op
OperandOf(d, op) == (CHOOSE p \in {d[j] : j \in 1..Len(d)} : p.op = op).val

\* The branch the age clause takes: two-sided, else $eq, else $lt, else $gt.
TwoSided(d) == HasOp(d, "$gte") /\ HasOp(d, "$lte")
EqActive(d) == ~TwoSided(d) /\ HasOp(d, "$eq")
LtActive(d) == ~TwoSided(d) /\ ~HasOp(d, "$eq") /\ HasOp(d, "$lt")
GtActive(d) == ~TwoSided(d) /\ ~HasOp(d, "$eq") /\ ~HasOp(d, "$lt") /\ HasOp(d, "$gt")

AgeFields == {"age_min", "age_max"}
AgeRelated(fs) == SelectSeq(fs, LAMBDA l : l.field \in AgeFields)
LeavesOn(fs, k) == SelectSeq(fs, LAMBDA l : l.field = k)
LeafSet(fs) == {fs[i] : i \in 1..Len(fs)}

Clauses == 1..Len(raw_filters)
Processed(i) == i \in Clauses /\ (idx > i \/ pc \in {"query", "done"})
Compiled == pc \in {"query", "done"}
IsAgeDict(i) == raw_filters[i].key = "age" /\ raw_filters[i].value.t = "dict"

\* How many leaves a clause is due, by the rules of the filter compiler.
LeavesDue(e) ==
    IF e.value.t = "null" THEN 0
    ELSE IF e.key = "age" THEN
        IF e.value.t # "dict" THEN 0
        ELSE LET d == e.value.d
             IN  IF TwoSided(d)
                 THEN IF IsNumber(OperandOf(d, "$gte")) /\ IsNumber(OperandOf(d, "$lte"))
                      THEN 2 ELSE 0
                 ELSE IF EqActive(d) THEN IF IsNumber(OperandOf(d, "$eq")) THEN 2 ELSE 0
                 ELSE IF LtActive(d) THEN IF IsNumber(OperandOf(d, "$lt")) THEN 1 ELSE 0
                 ELSE IF GtActive(d) THEN IF IsNumber(OperandOf(d, "$gt")) THEN 1 ELSE 0
                 ELSE 0
    ELSE IF e.value.t = "dict"
         THEN Cardinality({j \in 1..Len(e.value.d) : IsNumber(e.value.d[j].val)})
         ELSE 1

RECURSIVE TotalDue(_)
TotalDue(r) == IF r = <<>> THEN 0 ELSE LeavesDue(Head(r)) + TotalDue(Tail(r))

\* The raw key a leaf comes from, and where that key stands in the constraint.
KeyOfLeaf(l) == IF l.field \in AgeFields THEN "age" ELSE l.field
PosOfKey(k) == CHOOSE i \in Clauses : raw_filters[i].key = k

(***************************************************************************)
(* C1: a raw constraint from which no leaf survives (empty, only nulls,   *)
(* only non-numeric range operands, a dropped age clause) compiles to {}  *)
(* and the index is queried with where=None, never with an empty filter   *)
(* or an empty conjunction.                                                *)
(***************************************************************************)
C1_NoLeafNoWhere ==
    Compiled =>
        /\ TotalDue(raw_filters) = 0 => filters = <<>>
        /\ filters = <<>> =>
              /\ where_filter = EmptyFilter
              /\ pc = "done" => where_arg = None
        /\ pc = "done" =>
              /\ where_arg # EmptyFilter
              /\ where_arg.kind = "and" => Len(where_arg.leaves) >= 2

C1_Witness ==
    /\ pc = "done"
    /\ Len(raw_filters) = 2
    /\ TotalDue(raw_filters) = 0
    /\ \E i \in Clauses : IsAgeDict(i) /\ TwoSided(raw_filters[i].value.d)
    /\ \E i \in Clauses : raw_filters[i].key = "price" /\ raw_filters[i].value.t = "dict"
    /\ where_arg = None

(***************************************************************************)
(* C2: with exactly one surviving leaf the compiled filter is that leaf   *)
(* itself, not wrapped in $and or any other combinator.                   *)
(***************************************************************************)
C2_SingleLeafUnwrapped ==
    (Compiled /\ TotalDue(raw_filters) = 1) =>
        /\ Len(filters) = 1
        /\ where_filter = filters[1]
        /\ where_filter.kind = "leaf"
        /\ pc = "done" => where_arg = filters[1]

C2_Witness ==
    /\ pc = "done"
    /\ Len(raw_filters) = 2
    /\ TotalDue(raw_filters) = 1
    /\ where_filter = Leaf("price", "$lte", Num(3))

(***************************************************************************)
(* C3: with two or more surviving leaves the compiled filter is one       *)
(* top-level $and whose list holds every surviving leaf once, none lost,  *)
(* none nested, in the order of the keys of the raw constraint.           *)
(***************************************************************************)
C3_ConjunctionOfAllLeaves ==
    (Compiled /\ TotalDue(raw_filters) >= 2) =>
        /\ where_filter.kind = "and"
        /\ where_filter.leaves = filters
        /\ Len(where_filter.leaves) = TotalDue(raw_filters)
        /\ \A i \in 1..Len(where_filter.leaves) : where_filter.leaves[i].kind = "leaf"
        /\ \A i, j \in 1..Len(where_filter.leaves) :
              i < j => PosOfKey(KeyOfLeaf(where_filter.leaves[i]))
                          <= PosOfKey(KeyOfLeaf(where_filter.leaves[j]))
        /\ \A k \in Clauses :
              Len(SelectSeq(where_filter.leaves,
                            LAMBDA l : KeyOfLeaf(l) = raw_filters[k].key))
                 = LeavesDue(raw_filters[k])

C3_Witness ==
    /\ pc = "done"
    /\ raw_filters = <<Entry("color", Str(S_Red_padded)),
                       Entry("age", Dict(<<Pair("$eq", Num(3))>>))>>
    /\ where_arg = AndFilter(<<Leaf("color", Bare, Str(S_red)),
                               Leaf("age_min", "$lte", Num(3)),
                               Leaf("age_max", "$gte", Num(3))>>)

(***************************************************************************)
(* C4: an age constraint holding both $gte and $lte of which an operand   *)
(* is not a number yields no leaf on age_min or age_max at all: no        *)
(* one-sided filter, no fall-through to $eq, $lt or $gt.                   *)
(***************************************************************************)
BadTwoSided(d) ==
    /\ TwoSided(d)
    /\ ~IsNumber(OperandOf(d, "$gte")) \/ ~IsNumber(OperandOf(d, "$lte"))

C4_BadRangeDropsAgeClause ==
    \A i \in Clauses :
        (IsAgeDict(i) /\ BadTwoSided(raw_filters[i].value.d)) =>
            /\ AgeRelated(filters) = <<>>
            /\ pc # "raised"
            /\ Compiled => \A l \in LeafSet(filters) : KeyOfLeaf(l) # "age"

C4_Witness ==
    /\ pc = "done"
    /\ raw_filters = <<Entry("age", Dict(<<Pair("$gte", Num(3)),
                                           Pair("$lte", Str(S_red)),
                                           Pair("$eq", Num(3))>>))>>
    /\ where_arg = None

(***************************************************************************)
(* C5: an age constraint {"$eq": v} with a number v yields exactly the    *)
(* leaves age_min <= v and age_max >= v, so that a product matches iff v  *)
(* lies in its closed interval [age_min, age_max]; no other age leaf.     *)
(***************************************************************************)
\* A leaf evaluated on a product's metadata (integers).
Holds(l, meta) ==
    CASE l.op = "$lte" -> meta[l.field] <= l.val.n
      [] l.op = "$gte" -> meta[l.field] >= l.val.n
      [] l.op = "$lt" -> meta[l.field] < l.val.n
      [] l.op = "$gt" -> meta[l.field] > l.val.n

ProductAges == {m \in [AgeFields -> 1..9] : m["age_min"] <= m["age_max"]}

C5_EqualityInsideInterval ==
    \A i \in Clauses :
        (Processed(i) /\ IsAgeDict(i) /\ EqActive(raw_filters[i].value.d)
            /\ IsNumber(OperandOf(raw_filters[i].value.d, "$eq"))) =>
            LET v == OperandOf(raw_filters[i].value.d, "$eq")
                got == AgeRelated(filters)
            IN  /\ Len(got) = 2
                /\ LeafSet(got) = {Leaf("age_min", "$lte", v), Leaf("age_max", "$gte", v)}
                /\ v.t = "num" =>
                      \A m \in ProductAges :
                          (\A l \in LeafSet(got) : Holds(l, m))
                              <=> (m["age_min"] <= v.n /\ v.n <= m["age_max"])

C5_Witness ==
    /\ pc = "done"
    /\ raw_filters = <<Entry("age", Dict(<<Pair("$eq", Num(3))>>))>>
    /\ where_arg = AndFilter(<<Leaf("age_min", "$lte", Num(3)),
                               Leaf("age_max", "$gte", Num(3))>>)

(***************************************************************************)
(* C6: an age constraint {"$gte": lo, "$lte": hi} with numbers lo and hi  *)
(* yields exactly the leaves age_max <= hi and age_min >= lo; no other    *)
(* age leaf.                                                               *)
(***************************************************************************)
C6_TwoSidedRange ==
    \A i \in Clauses :
        (Processed(i) /\ IsAgeDict(i) /\ TwoSided(raw_filters[i].value.d)
            /\ ~BadTwoSided(raw_filters[i].value.d)) =>
            LET lo == OperandOf(raw_filters[i].value.d, "$gte")
                hi == OperandOf(raw_filters[i].value.d, "$lte")
                got == AgeRelated(filters)
            IN  /\ Len(got) = 2
                /\ LeafSet(got) = {Leaf("age_max", "$lte", hi), Leaf("age_min", "$gte", lo)}

C6_Witness ==
    /\ pc = "done"
    /\ raw_filters = <<Entry("age", Dict(<<Pair("$lte", Num(7)), Pair("$gte", Num(3))>>))>>
    /\ LeafSet(where_arg.leaves) = {Leaf("age_max", "$lte", Num(7)),
                                    Leaf("age_min", "$gte", Num(3))}

(***************************************************************************)
(* C7: a one-sided age constraint with a number v yields exactly one      *)
(* strict leaf: {"$lt": v} gives age_min < v, {"$gt": v} gives            *)
(* age_max > v, and nothing on the other bound field.                      *)
(***************************************************************************)
C7_OneSidedStrict ==
    \A i \in Clauses :
        (Processed(i) /\ IsAgeDict(i)) =>
            LET d == raw_filters[i].value.d
            IN  /\ (LtActive(d) /\ IsNumber(OperandOf(d, "$lt"))) =>
                      AgeRelated(filters) = <<Leaf("age_min", "$lt", OperandOf(d, "$lt"))>>
                /\ (GtActive(d) /\ IsNumber(OperandOf(d, "$gt"))) =>
                      AgeRelated(filters) = <<Leaf("age_max", "$gt", OperandOf(d, "$gt"))>>

C7_Witness ==
    /\ pc = "done"
    /\ \/ /\ raw_filters = <<Entry("age", Dict(<<Pair("$lt", Num(7))>>))>>
          /\ where_arg = Leaf("age_min", "$lt", Num(7))
       \/ /\ raw_filters = <<Entry("age", Dict(<<Pair("$gt", Num(7))>>))>>
          /\ where_arg = Leaf("age_max", "$gt", Num(7))

(***************************************************************************)
(* C8: build_chroma_filter never raises on a malformed raw constraint     *)
(* (an age value that is a number, a string or a list included): only the *)
(* offending clause is left out and every well-formed clause contributes  *)
(* its leaves.                                                             *)
(***************************************************************************)
C8_NeverRaises ==
    /\ pc # "raised"
    /\ exc = "none"
    /\ Compiled => Len(filters) = TotalDue(raw_filters)

(***************************************************************************)
(* C9: a non-age key holding a range object yields one leaf                *)
(* {key: {op: value}} per pair whose value is a number and none for a     *)
(* null or non-numeric value; as many leaves as numeric operands.          *)
(***************************************************************************)
C9_OneLeafPerNumericOperand ==
    \A i \in Clauses :
        (Processed(i) /\ raw_filters[i].key # "age" /\ raw_filters[i].value.t = "dict") =>
            LET k == raw_filters[i].key
                d == raw_filters[i].value.d
                got == LeavesOn(filters, k)
                numeric == {j \in 1..Len(d) : IsNumber(d[j].val)}
            IN  /\ Len(got) = Cardinality(numeric)
                /\ \A j \in numeric :
                      Cardinality({n \in 1..Len(got) : got[n] = Leaf(k, d[j].op, d[j].val)}) = 1
                /\ \A j \in (1..Len(d)) \ numeric :
                      \A n \in 1..Len(got) : got[n].op # d[j].op

C9_Witness ==
    /\ pc = "done"
    /\ raw_filters = <<Entry("price", Dict(<<Pair("$gte", Null), Pair("$lte", Num(7))>>))>>
    /\ where_arg = Leaf("price", "$lte", Num(7))

(***************************************************************************)
(* C10: a non-age key holding a non-null scalar v yields exactly one      *)
(* equality-style leaf {k: v'}; v' is v unchanged when v is not a string. *)
(* As first stated, v' of a string v is v in lowercase.                   *)
(***************************************************************************)
IsScalar(v) == v.t \in {"num", "bool", "str"}

C10_LowercaseOnly ==
    \A i \in Clauses :
        (Processed(i) /\ raw_filters[i].key # "age" /\ IsScalar(raw_filters[i].value)) =>
            LET k == raw_filters[i].key
                v == raw_filters[i].value
            IN  LeavesOn(filters, k)
                    = <<Leaf(k, Bare, IF v.t = "str" THEN Str(Lower(v.s)) ELSE v)>>

\* C10 as amended: v' of a string v is v with leading and trailing
\* whitespace removed and then put in lowercase.
C10_StrippedLowercase ==
    \A i \in Clauses :
        (Processed(i) /\ raw_filters[i].key # "age" /\ IsScalar(raw_filters[i].value)) =>
            LET k == raw_filters[i].key
                v == raw_filters[i].value
            IN  LeavesOn(filters, k)
                    = <<Leaf(k, Bare, IF v.t = "str" THEN Str(Lower(Strip(v.s))) ELSE v)>>

C10_Witness ==
    /\ pc = "done"
    /\ raw_filters = <<Entry("color", Str(S_Red_padded))>>
    /\ where_arg = Leaf("color", Bare, Str(S_red))

IsObjectText(reply) == reply.text = "json" /\ reply.v.t = "dict"
Extracting == pc \in {"extract", "sleep", "exhausted", "parse"}

C12_NonObjectReplyGivesEmpty ==
    /\ (extracted # Unset /\ raw_response # Unset /\ ~IsObjectText(raw_response)) =>
          extracted = Dict(<<>>)
    /\ llm_error # "none" =>
          (extracted = Dict(<<>>) /\ (pc = "raised" => exc \in IndexErrors))

(***************************************************************************)
(* C13: search_products never fails because of the extraction step:       *)
(* whatever the model call yields (exception, exhausted retries,          *)
(* unparseable text, JSON that is not an object, an object with malformed *)
(* values), the index is still queried; search_products raises only when  *)
(* the index query itself fails.                                           *)
(***************************************************************************)
C13_OnlyIndexFailureRaises ==
    /\ pc = "raised" => (query_calls = 1 /\ query_error # "none" /\ exc = query_error)
    /\ pc = "done" => query_calls = 1

(***************************************************************************)
(* C14: one extraction makes at most max_retries API calls; a transient   *)
(* error on attempt k < max_retries is followed by one sleep and attempt  *)
(* k+1; a success returns at once; no sleep follows the last attempt;     *)
(* after the last failure a RuntimeError is raised, which                 *)
(* extract_attributes turns into {}; the retry loop terminates.           *)
(***************************************************************************)
InChatCompletion == pc \in {"extract", "sleep", "exhausted"}

\* Decreases with every step taken inside chat_completion.
RetryMeasure ==
    3 * (max_retries - api_calls)
        + (CASE pc = "extract" -> 1 [] pc \in {"sleep", "exhausted"} -> 2 [] OTHER -> 0)

C14_RetryState ==
    /\ api_calls <= max_retries
    /\ sleeps <= max_retries - 1
    /\ attempt = sleeps + 1
    /\ api_calls = IF pc = "extract" THEN sleeps ELSE sleeps + 1
    /\ pc = "sleep" => (attempt < max_retries /\ last_error \in TransientErrors)
    /\ pc = "exhausted" =>
          (api_calls = max_retries /\ sleeps = max_retries - 1
             /\ last_error \in TransientErrors)
    /\ llm_error = "RuntimeError: Groq API failed" =>
          /\ api_calls = max_retries
          /\ extracted = Dict(<<>>)
          /\ pc = "raised" => exc \in IndexErrors
    /\ RetryMeasure >= 0
    /\ InChatCompletion => ENABLED NextSearch

C14_BoundedRetries ==
    /\ []C14_RetryState
    /\ [][/\ InChatCompletion => RetryMeasure' < RetryMeasure
          /\ ~InChatCompletion => (api_calls' = api_calls /\ sleeps' = sleeps)
          /\ (pc = "extract" /\ last_error' # last_error /\ attempt < max_retries) =>
                pc' = "sleep"
          /\ pc = "sleep" => (sleeps' = sleeps + 1 /\ pc' = "extract")]_vars

C14_Witness ==
    /\ pc = "done"
    /\ llm_error = "RuntimeError: Groq API failed"
    /\ api_calls = max_retries
    /\ sleeps = max_retries - 1
    /\ extracted = Dict(<<>>)
    /\ where_arg = None
    /\ returned.ok

(***************************************************************************)
(* C15: the schema file of a catalog is read at most once per successful  *)
(* load: once get_attribute_schema(c) has returned, every later call for  *)
(* c returns the cached schema without touching the file, whatever became *)
(* of the file, and nothing evicts or replaces the entry of c.  Stated    *)
(* for calls made one after the other.                                     *)
(***************************************************************************)
CallCompletes(c) == last_call'.n # last_call.n /\ last_call'.c = c

C15_LoadedOnce ==
    [][\A c \in Catalogs :
          /\ cache[c] # Absent =>
                /\ cache'[c] = cache[c]
                /\ file_reads'[c] = file_reads[c]
                /\ CallCompletes(c) =>
                      /\ last_call'.outcome = "returned"
                      /\ last_call'.value = cache[c]
                      /\ ~last_call'.accessed
          /\ (cache[c] = Absent /\ cache'[c] # Absent) =>
                /\ CallCompletes(c)
                /\ file_reads'[c] = file_reads[c] + 1
                /\ last_call'.value = cache'[c]
                /\ files[c] = JsonFile(cache'[c])]_vars

C15_Witness ==
    /\ last_call.n = 2
    /\ last_call.c = "c1"
    /\ last_call.outcome = "returned"
    /\ last_call.value = SchemaA
    /\ ~last_call.accessed
    /\ cache["c1"] = SchemaA
    /\ files["c1"] = JsonFile(SchemaB)
    /\ file_reads["c1"] = 1

(***************************************************************************)
(* C16: while the schema file of an uncached catalog c is absent, every   *)
(* call get_attribute_schema(c) raises RuntimeError 'Schema not           *)
(* configured', returns no schema, and leaves the cache as it was: no     *)
(* entry for c, the entries of the other catalogs unchanged.              *)
(***************************************************************************)
C16_AbsentFileRaises ==
    [][\A c \in Catalogs :
          (CallCompletes(c) /\ cache[c] = Absent /\ files[c] = NoFile) =>
              /\ last_call'.outcome = "raised"
              /\ last_call'.error = "RuntimeError: Schema not configured"
              /\ last_call'.value = Unset
              /\ cache' = cache
              /\ file_reads' = file_reads]_vars

C16_Witness ==
    /\ last_call.n = 3
    /\ last_call.c = "c1"
    /\ last_call.outcome = "raised"
    /\ last_call.error = "RuntimeError: Schema not configured"
    /\ files["c1"] = NoFile
    /\ cache["c1"] = Absent
    /\ file_reads["c1"] = 0
    /\ cache["c2"] = SchemaA

(***************************************************************************)
(* C17: every value stored in the schema cache or returned by             *)
(* get_attribute_schema is a mapping; a schema file that is malformed     *)
(* JSON, or JSON that is not a mapping, makes the call fail with the      *)
(* schema-invalid error and nothing is stored.                             *)
(***************************************************************************)
NotAMappingFile(file) == file = Malformed \/ (file.st = "json" /\ file.v.t # "dict")

C17_OnlyMappings ==
    /\ \A c \in Catalogs : cache[c] # Absent => cache[c].t = "dict"
    /\ last_call.outcome = "returned" => last_call.value.t = "dict"
    /\ (last_call.accessed /\ NotAMappingFile(last_call.file)) =>
          /\ last_call.outcome = "raised"
          /\ last_call.error = "RuntimeError: Invalid schema file"

(***************************************************************************)
(* C18: concurrent first accesses are safe: however two or more           *)
(* get_attribute_schema(c) calls on an uncached catalog interleave, its   *)
(* file staying the same, every call that returns returns the content of  *)
(* the file, the cache holds for c that content once a call has stored    *)
(* it, and only a call for c changes the entry of c.                       *)
(***************************************************************************)
C18_RaceIsSafe ==
    /\ [](\A t \in Threads :
            LET c == threads[t].c
            IN  /\ threads[t].pc = "done" => files[c] = JsonFile(threads[t].ret)
                /\ threads[t].pc \in {"return", "done"} => files[c] = JsonFile(cache[c]))
    /\ [](\A c \in Catalogs : cache[c] # Absent => files[c] = JsonFile(cache[c]))
    /\ [][\A c \in Catalogs :
            cache'[c] # cache[c] =>
                \E t \in Threads :
                    /\ threads[t].pc = "store"
                    /\ threads[t].c = c
                    /\ threads'[t].pc = "return"]_vars

C18_Witness ==
    /\ \A t \in Threads :
          /\ threads[t].pc = "done"
          /\ threads[t].c = "c1"
          /\ threads[t].ret = SchemaA
    /\ file_reads["c1"] = NumThreads
    /\ cache["c1"] = SchemaA
    /\ files["c1"] = JsonFile(SchemaA)

(***************************************************************************)
(* C19: an error raised by the index query leaves search_products towards *)
(* its caller: not swallowed, not retried, not replaced by an empty list. *)
(***************************************************************************)
C19_IndexErrorPropagates ==
    /\ query_calls <= 1
    /\ query_error # "none" =>
          /\ pc = "raised"
          /\ exc = query_error
          /\ returned = NotReturned

C19_Witness ==
    /\ pc = "raised"
    /\ query_error = "IndexQueryError"
    /\ exc = "IndexQueryError"
    /\ where_arg = Leaf("color", Bare, Str(S_red))

(***************************************************************************)
(* C20: the parallel arrays of the index are put together position by     *)
(* position: record i is {document: documents[i], metadata: metadatas[i], *)
(* id: ids[i], distance: distances[i]}; one record per returned document, *)
(* in the order of the store (ascending distance when the store's is).    *)
(***************************************************************************)
ArraysParallel(res) ==
    /\ Len(res.metadatas) = Len(res.documents)
    /\ Len(res.ids) = Len(res.documents)
    /\ Len(res.distances) = Len(res.documents)

Ascending(xs) == \A i, j \in 1..Len(xs) : i < j => xs[i].n <= xs[j].n

C20_PositionwiseRecords ==
    (pc = "done" /\ returned.ok /\ ArraysParallel(results)) =>
        LET out == returned.products
        IN  /\ Len(out) = Len(results.documents)
            /\ \A i \in 1..Len(out) :
                  /\ DOMAIN out[i] = {"document", "metadata", "id", "distance"}
                  /\ out[i].document = results.documents[i]
                  /\ out[i].metadata = results.metadatas[i]
                  /\ out[i].id = results.ids[i]
                  /\ out[i].distance = results.distances[i]
            /\ Ascending(results.distances) =>
                  Ascending([i \in 1..Len(out) |-> out[i].distance])

C20_Witness ==
    /\ pc = "done"
    /\ results = [documents |-> <<[doc |-> "B"], [doc |-> "A"]>>,
                  metadatas |-> <<[meta |-> "B"], [meta |-> "A"]>>,
                  ids |-> <<[id |-> "B"], [id |-> "A"]>>,
                  distances |-> <<Num(1), Num(2)>>]
    /\ returned = Returned(<<[document |-> [doc |-> "B"], metadata |-> [meta |-> "B"],
                              id |-> [id |-> "B"], distance |-> Num(1)],
                             [document |-> [doc |-> "A"], metadata |-> [meta |-> "A"],
                              id |-> [id |-> "A"], distance |-> Num(2)]>>)

(***************************************************************************)
(* C21: within one search_products invocation the round-trips are         *)
(* strictly ordered: every language-model attempt is over before the      *)
(* filter is compiled, the filter is compiled before the index is         *)
(* queried, the index is queried exactly once, with the filter compiled   *)
(* from this invocation's extraction, and no result is returned that was  *)
(* obtained without that filter.                                           *)
(***************************************************************************)
FilterSent(wf) == IF wf = EmptyFilter THEN None ELSE wf

C21_Ordered ==
    /\ Extracting =>
          (extracted = Unset /\ filters = <<>> /\ where_filter = None /\ query_calls = 0)
    /\ pc \in {"compile", "loop", "query"} =>
          (extracted # Unset /\ query_calls = 0 /\ results = Unset /\ ~returned.ok)
    /\ query_calls <= 1
    /\ pc \in {"format", "done"} => query_calls = 1
    /\ query_calls = 1 =>
          /\ extracted.t = "dict"
          /\ raw_filters = extracted.d
          /\ idx > Len(raw_filters)
          /\ Len(filters) = TotalDue(raw_filters)
          /\ where_filter = BuildWhere(filters)
          /\ where_arg = FilterSent(where_filter)
    /\ returned.ok =>
          /\ query_calls = 1
          /\ query_error = "none"
          /\ returned.products = Reassemble(results)

C21_RoundTripsInOrder ==
    /\ []C21_Ordered
    /\ [][/\ api_calls' # api_calls => (pc = "extract" /\ extracted = Unset)
          /\ extracted' # extracted => (extracted = Unset /\ pc' = "compile")
          /\ filters' # filters => pc \in {"compile", "loop"}
          /\ where_filter' # where_filter => (pc = "loop" /\ pc' = "query")
          /\ query_calls' # query_calls => (pc = "query" /\ pc' \in {"format", "raised"})]_vars

C21_Witness ==
    /\ pc = "done"
    /\ api_calls = 2
    /\ sleeps = 1
    /\ extracted = Dict(<<Entry("price", Dict(<<Pair("$lte", Num(7))>>)),
                          Entry("color", Str(S_red))>>)
    /\ where_arg = AndFilter(<<Leaf("price", "$lte", Num(7)),
                               Leaf("color", Bare, Str(S_red))>>)
    /\ query_calls = 1
    /\ Len(returned.products) = 1

(***************************************************************************)
(* C25: the constraint set extract_attributes returns never holds a       *)
(* gender value other than the two bucket values "girls" and "boys": for  *)
(* a reply of the model with another gender value the key is left out     *)
(* before the constraint reaches the filter compiler.                      *)
(***************************************************************************)
GenderBuckets == {Str(S_girls), Str(S_boys)}

C25_GenderOnlyBuckets ==
    /\ extracted.t = "dict" =>
          \A i \in 1..Len(extracted.d) :
              extracted.d[i].key = "gender" => extracted.d[i].value \in GenderBuckets
    /\ \A i \in 1..Len(filters) :
          filters[i].field = "gender" => filters[i].val \in GenderBuckets

(***************************************************************************)
(* C29: only transient errors are retried: an exception of the API call   *)
(* that is not a connection, rate-limit or internal-server error makes    *)
(* chat_completion raise RuntimeError on that very attempt, with no sleep *)
(* and no further API call, however many attempts remain.                  *)
(***************************************************************************)
Unexpected == llm_error = "RuntimeError: Unexpected error"

C29_OnlyTransientRetried ==
    /\ [](last_error \in TransientErrors \cup {"none"})
    /\ [](pc \in {"sleep", "exhausted"} => last_error \in TransientErrors)
    /\ [](Unexpected =>
            /\ api_calls = attempt
            /\ sleeps = attempt - 1
            /\ ~InChatCompletion
            /\ extracted = Dict(<<>>))
    /\ [][/\ (~Unexpected /\ Unexpected') =>
                /\ pc = "extract"
                /\ api_calls' = api_calls + 1
                /\ UNCHANGED <<sleeps, attempt, last_error>>
                /\ pc' = "compile"
          /\ Unexpected => UNCHANGED <<api_calls, sleeps, attempt>>]_vars

C29_Witness ==
    /\ pc = "done"
    /\ Unexpected
    /\ attempt = 2
    /\ attempt < max_retries
    /\ api_calls = 2
    /\ sleeps = 1
    /\ last_error = "RateLimitError"
    /\ where_arg = None

(***************************************************************************)
(* C30: for an age range object exactly one branch is taken, in the       *)
(* precedence two-sided ($gte and $lte both present) > $eq > $lt > $gt:   *)
(* operators of the branches below the one taken contribute no leaf, an   *)
(* object with only $gte, only $lte or no recognised operator contributes *)
(* no leaf at all, and no leaf is ever emitted on a field named age.       *)
(***************************************************************************)
\* The leaves of the branch an age object takes, when its operands are numbers.
BranchLeaves(d) ==
    IF TwoSided(d)
    THEN <<Leaf("age_max", "$lte", OperandOf(d, "$lte")),
           Leaf("age_min", "$gte", OperandOf(d, "$gte"))>>
    ELSE IF HasOp(d, "$eq")
    THEN <<Leaf("age_min", "$lte", OperandOf(d, "$eq")),
           Leaf("age_max", "$gte", OperandOf(d, "$eq"))>>
    ELSE IF HasOp(d, "$lt") THEN <<Leaf("age_min", "$lt", OperandOf(d, "$lt"))>>
    ELSE IF HasOp(d, "$gt") THEN <<Leaf("age_max", "$gt", OperandOf(d, "$gt"))>>
    ELSE <<>>

C30_OneBranchByPrecedence ==
    /\ \A j \in 1..Len(filters) : filters[j].field # "age"
    /\ \A i \in Clauses :
          (IsAgeDict(i) /\ Processed(i)) =>
              LET d == raw_filters[i].value.d
                  got == AgeRelated(filters)
              IN  /\ got \in {<<>>, BranchLeaves(d)}
                  /\ Len(got) = LeavesDue(raw_filters[i])
                  /\ (~TwoSided(d) /\ ~HasOp(d, "$eq") /\ ~HasOp(d, "$lt") /\ ~HasOp(d, "$gt"))
                        => got = <<>>

C30_Witness ==
    /\ pc = "done"
    /\ raw_filters = <<Entry("age", Dict(<<Pair("$gte", Num(3)), Pair("$lte", Num(7)),
                                           Pair("$eq", Num(3))>>))>>
    /\ where_arg = AndFilter(<<Leaf("age_max", "$lte", Num(7)),
                               Leaf("age_min", "$gte", Num(3))>>)


(***************************************************************************)
(* The formatted products of the search_products tool.                    *)
(***************************************************************************)
KeysOf(d) == IF d.t = "dict" THEN {d.d[i].key : i \in 1..Len(d.d)} ELSE {}

\* v is what d holds under k, the empty string when d has no k.
ReadFrom(d, k, v) ==
    \/ \E i \in 1..Len(d.d) : d.d[i].key = k /\ d.d[i].value = v
    \/ k \notin KeysOf(d) /\ v = EmptyStr

Kept == {kept_from[j] : j \in 1..Len(kept_from)}

C23_SkippedNotAborted ==
    /\ tool_pc = "returned" /\ tool_schema # Unset =>
           /\ tool_out.found
           /\ tool_out.products = formatted
           /\ tool_out.count = Len(tool_out.products)
           /\ Len(kept_from) = Len(tool_out.products)
           /\ \A i \in 1..Len(candidates) :
                  /\ candidates[i].document = NotJsonBlob => i \notin Kept
                  /\ i \in Kept <=> FormatOne(candidates[i], tool_schema, doc_cols).exc = "none"
    /\ \A j \in 1..Len(kept_from) : \A k \in 1..Len(kept_from) :
           j < k => kept_from[j] < kept_from[k]

\* An unparseable candidate came first and the one after it was returned.
C23_Witness ==
    /\ tool_pc = "returned"
    /\ tool_out.found
    /\ Len(candidates) = 2
    /\ candidates[1].document = NotJsonBlob
    /\ kept_from = <<2>>
    /\ tool_out.count = 1

\* C24: every product the tool returns has a field that holds the id of the
\* candidate it was built from.
C24_ProductsCarryIdentifier ==
    tool_pc = "returned" /\ tool_out.found =>
        \A j \in 1..Len(tool_out.products) :
            \E k \in DOMAIN tool_out.products[j] :
                tool_out.products[j][k] = candidates[kept_from[j]].id


(***************************************************************************)
(* generate_response, the search route and the sessions.                  *)
(***************************************************************************)
Occurrences(obs, pid) == {i \in 1..Len(obs) : obs[i].product_id = pid}
First(S) == CHOOSE i \in S : \A j \in S : i <= j
Last(S) == CHOOSE i \in S : \A j \in S : j <= i

\* products is obs without duplicates of a product_id: each id once, with
\* the record met last, in the order the ids were first met.
Deduplicated(products, obs) ==
    /\ \A j, k \in 1..Len(products) :
           j # k => products[j].product_id # products[k].product_id
    /\ \A i \in 1..Len(obs) :
           \E j \in 1..Len(products) : products[j].product_id = obs[i].product_id
    /\ \A j \in 1..Len(products) :
           /\ Occurrences(obs, products[j].product_id) # {}
           /\ products[j] = obs[Last(Occurrences(obs, products[j].product_id))]
    /\ \A j, k \in 1..Len(products) :
           j < k => First(Occurrences(obs, products[j].product_id))
                        < First(Occurrences(obs, products[k].product_id))

AgentReturned == agent_pc = "generated" /\ agent_result.outcome = "returned"

\* C26 as stated: whenever the agent run returned, the product list of
\* generate_response is the deduplication of every product with an id that
\* the search_products observations held.
C26_AllObservedReturned ==
    AgentReturned => Deduplicated(gen_result.products, seen)

\* C26, amended: when the agent run returned a non-empty output, the
\* product list is that deduplication (last record, position of the
\* first, nothing left out); with an empty output generate_response
\* returns the fallback text and no product.
C26_DedupWhenOutputNonEmpty ==
    AgentReturned =>
        IF ResponseText(agent_result) # EmptyStr
        THEN /\ gen_result.response_text = ResponseText(agent_result)
             /\ Deduplicated(gen_result.products, seen)
        ELSE gen_result = Fallback

\* P1 was met twice, with P2 in between: the later record of P1 stands
\* first, P2 second.
C26_Witness ==
    /\ AgentReturned
    /\ ResponseText(agent_result) # EmptyStr
    /\ seen = <<P1a, P2, P1b>>
    /\ gen_result.products = <<P1b, P2>>

\* C27: the route answers success=True with the session id of the request
\* whenever generate_response has returned a result.
C27_ResultGivesSuccess ==
    route_response # Unset =>
        /\ route_response.success
        /\ route_response.session_id \in {Str(s) : s \in SessionIds}

\* C28: the two maps have the same keys and a session's memory is the one
\* made with its executor; get_executor returns the executor of the map,
\* which only a reset replaces; reset_session returns True exactly for a
\* live session and leaves the session in neither map; an executor made
\* for a session that had none is new and its history is empty before the
\* first turn.
C28_State ==
    /\ \A s \in SessionIds :
           /\ sessions[s] = Absent <=> memories[s] = Absent
           /\ sessions[s] # Absent =>
                  /\ memories[s].id = sessions[s].id
                  /\ sessions[s].id < next_executor
    /\ sess_last.op = "get_executor" => sess_last.ret = sessions[sess_last.s]
    /\ sess_last.op = "reset_session" =>
           /\ sess_last.ret = sess_last.was_live
           /\ sessions[sess_last.s] = Absent
           /\ memories[sess_last.s] = Absent

C28_Step ==
    \A s \in SessionIds :
        /\ sessions[s] # Absent /\ sessions'[s] # Absent => sessions'[s] = sessions[s]
        /\ sessions[s] = Absent /\ sessions'[s] # Absent =>
               /\ sessions'[s] = Executor(next_executor)
               /\ memories'[s].turns = IF agent_pc' = "steps" THEN 1 ELSE 0
        /\ sess_last'.op = "reset_session" /\ sess_last'.s = s /\ sess_last' # sess_last =>
               sess_last'.ret = (sessions[s] # Absent)

C28_SessionMaps == [][C28_State' /\ C28_Step]_vars

\* s1 was created, reset and created again next to a live default session.
C28_Witness ==
    /\ sessions["default"] = Executor(1)
    /\ sessions["s1"] = Executor(3)
    /\ memories["s1"] = Memory(3, 0)
    /\ sess_last.s = "s1"
    /\ ~sess_last.was_live

====
